---- MODULE Spec2Model ----
(***************************************************************************)
(* Variable-dependency extraction of go-template-live (wasm/):            *)
(* the Parser's tree walk (parser.go), the function registry              *)
(* (functions_core: FunctionRegistry), the function matchers (matcher.go) *)
(* and the registered argument extractors.                                *)
(***************************************************************************)
EXTENDS Integers, Sequences, FiniteSets, TLC

VARIABLES
    registries,   \* registry instance -> (function name -> FunctionDefinition)
    parser,       \* the Parser: [functionMatcher, functionRegistry]
    fileContent,  \* the template source the caller currently holds, or NoTemplate
    names,        \* return value of the last ExtractVariables call, or NotCalled
    infos,        \* return value of the last ExtractVariablesWithDefaults call, or NotCalled
    extracted,    \* the last call handed to its registered extractors, and what they returned
    registered,   \* number of RegisterFunction calls made after start-up
    build,        \* the build variant of the process
    supplied,     \* the values the caller supplies for rendering: key -> value
    rendered,     \* the last call of a render function and what it returned
    matched,      \* the last MatchCustomFunc call and what it returned
    wasm          \* the page's WASMUtils object, its load promises and its initialize calls

vars == <<registries, parser, fileContent, names, infos, extracted, registered,
          build, supplied, rendered, matched, wasm>>

renderVars == <<build, supplied, rendered>>

frontVars == <<matched, wasm>>

(***************************************************************************)
(* Bounds of the model.                                                    *)
(***************************************************************************)
MaxNest == 18        \* deepest chain of parenthesised pipelines in a generated template
MaxRegistered == 1   \* RegisterFunction calls made after start-up
MaxSequence == 3     \* longest sequence of RegisterFunction calls made on the start-up registries
MaxSiblings == 42    \* most sibling nodes of one list, more than the walk's ceiling
MaxCalls == 3        \* most calls of WASMUtils.initialize in one behaviour
MaxMatchers == 2     \* most sub-matchers a composite matcher is made of

(***************************************************************************)
(* Program constants.                                                      *)
(***************************************************************************)
maxDepth == 40

NoError == "nil"
DepthError == "template variable nesting too deep"
ParseError == "template: parse error"

NoTemplate == [wellFormed |-> FALSE, root |-> [type |-> "none"]]
NotCalled == [result |-> <<>>, err |-> "not called"]

(***************************************************************************)
(* text/template/parse nodes, as the walker sees them.                     *)
(***************************************************************************)
Nil == [type |-> "nil"]
FieldNode(ident) == [type |-> "Field", Ident |-> ident]
IdentifierNode(name) == [type |-> "Identifier", Ident |-> name]
StringNode(text) == [type |-> "String", Text |-> text]
NumberNode == [type |-> "Number"]
TextNode == [type |-> "Text"]
VariableNode == [type |-> "Variable"]
CommandNode(args) == [type |-> "Command", Args |-> args]
PipeNode(cmds) == [type |-> "Pipe", Cmds |-> cmds]
ActionNode(pipe) == [type |-> "Action", Pipe |-> pipe]
ListNode(nodes) == [type |-> "List", Nodes |-> nodes]
IfNode(pipe, list, elseList) == [type |-> "If", Pipe |-> pipe, List |-> list, ElseList |-> elseList]
RangeNode(pipe, list, elseList) == [type |-> "Range", Pipe |-> pipe, List |-> list, ElseList |-> elseList]
WithNode(pipe, list, elseList) == [type |-> "With", Pipe |-> pipe, List |-> list, ElseList |-> elseList]
ChainNode(node, field) == [type |-> "Chain", Node |-> node, Field |-> field]
TemplateNode(name, pipe) == [type |-> "Template", Name |-> name, Pipe |-> pipe]

(***************************************************************************)
(* strings.Join(ident, ".")                                                *)
(***************************************************************************)
RECURSIVE Join(_)
Join(ident) ==
    IF Len(ident) = 0 THEN ""
    ELSE IF Len(ident) = 1 THEN ident[1]
    ELSE ident[1] \o "." \o Join(Tail(ident))

VariableInfo(name, defaultValue) == [Name |-> name, DefaultValue |-> defaultValue]

Ret(result, err) == [result |-> result, err |-> err]

(***************************************************************************)
(* Function registry.                                                      *)
(***************************************************************************)
FunctionDefinition(name, extractor, extractorWithDefaults) ==
    [Name |-> name, Handler |-> name \o "MinimalHandler",
     Extractor |-> extractor, ExtractorWithDefaults |-> extractorWithDefaults]

NewFunctionRegistry == [n \in {} |-> Nil]

\* a registration that keeps the entry a name already has
RegisterFunctionOnce(functions, def) ==
    [n \in (DOMAIN functions) \cup {def.Name} |->
        IF n \in DOMAIN functions THEN functions[n] ELSE def]

RegisterFunctionIn(functions, def) ==
    [n \in (DOMAIN functions) \cup {def.Name} |->
        IF n = def.Name THEN def ELSE functions[n]]

RECURSIVE RegisterAll(_, _)
RegisterAll(functions, defs) ==
    IF Len(defs) = 0 THEN functions
    ELSE RegisterAll(RegisterFunctionIn(functions, Head(defs)), Tail(defs))

GetFunction(functions, name) ==
    IF name \in DOMAIN functions
    THEN [def |-> functions[name], exists |-> TRUE]
    ELSE [def |-> Nil, exists |-> FALSE]

GetMinimalFuncMap(functions) == DOMAIN functions

DefaultFunctions ==
    RegisterAll(NewFunctionRegistry, <<
        FunctionDefinition("getv", "extractGetvVariables", "none"),
        FunctionDefinition("exists", "extractExistsVariables", "none"),
        FunctionDefinition("get", "extractGetVariables", "none"),
        FunctionDefinition("jsonv", "extractJsonvVariables", "none")>>)

registerCustomFunctions(functions) ==
    RegisterAll(functions, <<
        FunctionDefinition("getv", "extractGetvVariables", "extractGetvVariablesWithDefaults"),
        FunctionDefinition("exists", "extractKeyArgVariable", "extractKeyArgVariableInfo"),
        FunctionDefinition("get", "extractKeyArgVariable", "extractKeyArgVariableInfo"),
        FunctionDefinition("json", "extractKeyArgVariable", "extractKeyArgVariableInfo"),
        FunctionDefinition("jsonArray", "extractKeyArgVariable", "extractKeyArgVariableInfo")>>)

ConfdFirstArgFunctions ==
    <<"base", "split", "dir", "toUpper", "toLower", "replace", "contains",
      "base64Encode", "base64Decode", "trimSuffix", "parseBool",
      "add", "sub", "div", "mod", "mul", "seq">>

ConfdNoVariableFunctions == <<"map", "join", "datetime", "reverse", "atoi">>

RECURSIVE DefsWith(_, _, _)
DefsWith(fnames, extractor, extractorWithDefaults) ==
    IF Len(fnames) = 0 THEN <<>>
    ELSE <<FunctionDefinition(Head(fnames), extractor, extractorWithDefaults)>>
         \o DefsWith(Tail(fnames), extractor, extractorWithDefaults)

registerConfdFunctions(functions) ==
    RegisterAll(functions,
        <<FunctionDefinition("getv", "extractGetvVariables", "extractGetvVariablesWithDefaults"),
          FunctionDefinition("exists", "extractKeyArgVariable", "extractKeyArgVariableInfo"),
          FunctionDefinition("get", "extractKeyArgVariable", "extractKeyArgVariableInfo"),
          FunctionDefinition("json", "extractSingleStringArgVariable", "extractSingleStringArgVariableInfo"),
          FunctionDefinition("jsonArray", "extractSingleStringArgVariable", "extractSingleStringArgVariableInfo")>>
        \o DefsWith(ConfdFirstArgFunctions, "extractFirstArgVariable", "extractFirstArgVariableInfo")
        \o DefsWith(ConfdNoVariableFunctions, "extractNoVariables", "extractNoVariablesInfo"))

(***************************************************************************)
(* Function matchers.                                                      *)
(***************************************************************************)
NewDefaultFunctionMatcher == [kind |-> "default", supportedFunctions |-> {"exists", "get", "getv", "jsonv"}]
NewOfficialFunctionMatcher == [kind |-> "default", supportedFunctions |-> {}]
NewRegistryFunctionMatcher(rid) == [kind |-> "registry", registry |-> rid]
NewCompositeFunctionMatcher(matchers) == [kind |-> "composite", matchers |-> matchers]

DefaultMatchCustomFunc(m, funcName) == funcName \in m.supportedFunctions

\* a matcher over a fixed list of names, whatever the registry holds
FixedListMatchCustomFunc(regs, m, funcName) == funcName \in {"exists", "get", "getv", "jsonv"}

RegistryMatchCustomFunc(regs, m, funcName) == GetFunction(regs[m.registry], funcName).exists

SimpleMatchCustomFunc(regs, m, funcName) ==
    IF m.kind = "default" THEN DefaultMatchCustomFunc(m, funcName)
    ELSE RegistryMatchCustomFunc(regs, m, funcName)

\* a composite that asks its first matcher only
FirstMatchCustomFunc(regs, m, funcName) ==
    Len(m.matchers) > 0 /\ SimpleMatchCustomFunc(regs, m.matchers[1], funcName)

CompositeMatchCustomFunc(regs, m, funcName) ==
    \E i \in 1..Len(m.matchers) : SimpleMatchCustomFunc(regs, m.matchers[i], funcName)

MatchCustomFunc(regs, m, funcName) ==
    IF m.kind = "composite" THEN CompositeMatchCustomFunc(regs, m, funcName)
    ELSE SimpleMatchCustomFunc(regs, m, funcName)

(***************************************************************************)
(* The Parser's tree walk (parser.go).  Every operator returns the pair    *)
(* (result, err) of the Go function it models.                             *)
(***************************************************************************)
NewParser(matcher) == [functionMatcher |-> matcher, functionRegistry |-> "default"]
NewParserWithRegistry(matcher, rid) == [functionMatcher |-> matcher, functionRegistry |-> rid]

\* what the walkers return: ([]string, error) and ([]VariableInfo, error)
Returns == [result : Seq(STRING), err : STRING]
ReturnsWithDefaults == [result : Seq([Name : STRING, DefaultValue : STRING]), err : STRING]

\* the names of sonResult that result does not hold yet
RECURSIVE Fresh(_, _)
Fresh(sonResult, result) ==
    IF sonResult = <<>> THEN <<>>
    ELSE IF \E j \in 1..Len(result) : result[j] = Head(sonResult)
         THEN Fresh(Tail(sonResult), result)
         ELSE <<Head(sonResult)>> \o Fresh(Tail(sonResult), result \o <<Head(sonResult)>>)

\* an append loop that drops the names it already holds
RECURSIVE appendAllDistinct(_, _, _)
appendAllDistinct(sons, i, result) ==
    IF i > Len(sons) THEN Ret(result, NoError)
    ELSE IF sons[i].err # NoError THEN Ret(<<>>, sons[i].err)
    ELSE appendAllDistinct(sons, i + 1, result \o Fresh(sons[i].result, result))

\* an append loop that returns what it has collected along with the error
RECURSIVE appendAllPartial(_, _, _)
appendAllPartial(sons, i, result) ==
    IF i > Len(sons) THEN Ret(result, NoError)
    ELSE IF sons[i].err # NoError THEN Ret(result, sons[i].err)
    ELSE appendAllPartial(sons, i + 1, result \o sons[i].result)

\* for each son in order: if err != nil { return nil, err }; result = append(result, sonResult...)
RECURSIVE appendAll(_, _, _)
appendAll(sons, i, result) ==
    IF i > Len(sons) THEN Ret(result, NoError)
    ELSE IF sons[i].err # NoError THEN Ret(<<>>, sons[i].err)
    ELSE appendAll(sons, i + 1, result \o sons[i].result)

\* the error check and the append that follow every recursive call; sons are
\* the returns of the calls in the order the code makes them
appendResult[sons \in Seq(Returns)] == appendAll(sons, 1, <<>>)

\* for _, name := range sonResult { result = append(result, VariableInfo{Name: name}) }
WrapNames(sonResult) == [i \in 1..Len(sonResult) |-> VariableInfo(sonResult[i], "")]

RECURSIVE appendAllNames(_, _, _)
appendAllNames(sons, i, result) ==
    IF i > Len(sons) THEN Ret(result, NoError)
    ELSE IF sons[i].err # NoError THEN Ret(<<>>, sons[i].err)
    ELSE appendAllNames(sons, i + 1, result \o WrapNames(sons[i].result))

\* the same check and append in the walk that returns []VariableInfo
appendInfos[sons \in Seq(ReturnsWithDefaults)] == appendAll(sons, 1, <<>>)

\* the same with every name of sonResult wrapped as VariableInfo{Name: name}
appendNames[sons \in Seq(Returns)] == appendAllNames(sons, 1, <<>>)

RECURSIVE getFieldFromNode(_, _, _, _)
RECURSIVE getFieldFromNodeWithDefaults(_, _, _, _)

\* a walk whose ceiling is reached one level early
nodeCaseAtCeiling(node, depth) ==
    IF depth + 1 >= maxDepth THEN "depth > maxDepth" ELSE node.type

\* a walk without the ceiling
nodeCaseUnbounded(node, depth) == node.type

\* depth = depth + 1; if depth > maxDepth { return nil, err }; switch node := node.(type)
nodeCase(node, depth) == IF depth + 1 > maxDepth THEN "depth > maxDepth" ELSE node.type

\* a block walked guard, else, body
processElseBeforeList(regs, p, pipe, list, elseList, cycle) ==
    IF elseList # Nil
    THEN appendResult[<<getFieldFromNode(regs, p, pipe, cycle),
                        getFieldFromNode(regs, p, elseList, cycle),
                        getFieldFromNode(regs, p, list, cycle)>>]
    ELSE appendResult[<<getFieldFromNode(regs, p, pipe, cycle),
                        getFieldFromNode(regs, p, list, cycle)>>]

\* a block whose parts are walked with a counter that counts the parts walked before
processPartsCounted(regs, p, pipe, list, elseList, cycle) ==
    IF elseList # Nil
    THEN appendResult[<<getFieldFromNode(regs, p, pipe, cycle),
                        getFieldFromNode(regs, p, list, cycle + 1),
                        getFieldFromNode(regs, p, elseList, cycle + 2)>>]
    ELSE appendResult[<<getFieldFromNode(regs, p, pipe, cycle),
                        getFieldFromNode(regs, p, list, cycle + 1)>>]

processIfAndWithAndRange(regs, p, pipe, list, elseList, cycle) ==
    IF elseList # Nil
    THEN appendResult[<<getFieldFromNode(regs, p, pipe, cycle),
                        getFieldFromNode(regs, p, list, cycle),
                        getFieldFromNode(regs, p, elseList, cycle)>>]
    ELSE appendResult[<<getFieldFromNode(regs, p, pipe, cycle),
                        getFieldFromNode(regs, p, list, cycle)>>]

\* a recognized call whose arguments after the literal key are walked as well
parseCustomFuncEveryArg(regs, p, args, cycle) ==
    IF MatchCustomFunc(regs, p.functionMatcher, args[1].Ident) /\ Len(args) > 1
    THEN appendResult[[i \in 1..(Len(args) - 1) |->
                          IF i = 1 /\ args[2].type = "String"
                          THEN Ret(<<args[2].Text>>, NoError)
                          ELSE getFieldFromNode(regs, p, args[i + 1], cycle)]]
    ELSE IF MatchCustomFunc(regs, p.functionMatcher, args[1].Ident)
    THEN Ret(<<>>, NoError)
    ELSE appendResult[[i \in 1..Len(args) |-> getFieldFromNode(regs, p, args[i], cycle)]]

\* a walk that takes every call for a recognized one
parseCustomFuncAllRecognized(regs, p, args, cycle) ==
    IF Len(args) > 1
    THEN IF args[2].type = "String"
         THEN Ret(<<args[2].Text>>, NoError)
         ELSE appendResult[<<getFieldFromNode(regs, p, args[2], cycle)>>]
    ELSE Ret(<<>>, NoError)

parseCustomFunc(regs, p, args, cycle) ==
    IF MatchCustomFunc(regs, p.functionMatcher, args[1].Ident)
    THEN IF Len(args) > 1
         THEN IF args[2].type = "String"
              THEN Ret(<<args[2].Text>>, NoError)
              ELSE appendResult[<<getFieldFromNode(regs, p, args[2], cycle)>>]
         ELSE Ret(<<>>, NoError)
    ELSE appendResult[[i \in 1..Len(args) |-> getFieldFromNode(regs, p, args[i], cycle)]]

getFieldFromNode(regs, p, node, depth) ==
    CASE nodeCase(node, depth) = "depth > maxDepth" -> Ret(<<>>, DepthError)
      [] nodeCase(node, depth) = "Field" -> Ret(<<Join(node.Ident)>>, NoError)
      [] nodeCase(node, depth) = "Command" ->
            IF node.Args[1].type = "Identifier"
            THEN appendResult[<<parseCustomFunc(regs, p, node.Args, depth + 1)>>]
            ELSE appendResult[[i \in 1..Len(node.Args) |->
                                getFieldFromNode(regs, p, node.Args[i], depth + 1)]]
      [] nodeCase(node, depth) = "Action" ->
            appendResult[<<getFieldFromNode(regs, p, node.Pipe, depth + 1)>>]
      [] nodeCase(node, depth) = "Pipe" ->
            appendResult[[i \in 1..Len(node.Cmds) |->
                            getFieldFromNode(regs, p, node.Cmds[i], depth + 1)]]
      [] nodeCase(node, depth) = "List" ->
            appendResult[[i \in 1..Len(node.Nodes) |->
                            getFieldFromNode(regs, p, node.Nodes[i], depth + 1)]]
      [] nodeCase(node, depth) \in {"If", "Range", "With"} ->
            appendResult[<<processIfAndWithAndRange(regs, p, node.Pipe, node.List, node.ElseList, depth + 1)>>]
      [] OTHER -> Ret(<<>>, NoError)

processIfAndWithAndRangeWithDefaults(regs, p, pipe, list, elseList, cycle) ==
    IF elseList # Nil
    THEN appendInfos[<<getFieldFromNodeWithDefaults(regs, p, pipe, cycle),
                        getFieldFromNodeWithDefaults(regs, p, list, cycle),
                        getFieldFromNodeWithDefaults(regs, p, elseList, cycle)>>]
    ELSE appendInfos[<<getFieldFromNodeWithDefaults(regs, p, pipe, cycle),
                        getFieldFromNodeWithDefaults(regs, p, list, cycle)>>]

\* the entry without the default branch of lines 332-335
literalKeyName(args) == VariableInfo(args[2].Text, "")

\* varInfo := VariableInfo{Name: stringNode.Text}; DefaultValue set if args[2] is a string literal
literalKeyInfo(args) ==
    IF Len(args) > 2 /\ args[3].type = "String"
    THEN VariableInfo(args[2].Text, args[3].Text)
    ELSE VariableInfo(args[2].Text, "")

\* for _, arg := range args { sonResult, err := p.getFieldFromNode(arg, cycle); wrap each name }
rangeArgsPlain(regs, p, args, cycle) ==
    appendNames[[i \in 1..Len(args) |-> getFieldFromNode(regs, p, args[i], cycle)]]

\* a recognized call that reports its key only when the key is a literal
parseCustomFuncWithDefaultsLiteralOnly(regs, p, args, cycle) ==
    IF MatchCustomFunc(regs, p.functionMatcher, args[1].Ident)
    THEN IF Len(args) > 1 /\ args[2].type = "String"
         THEN Ret(<<literalKeyInfo(args)>>, NoError)
         ELSE Ret(<<>>, NoError)
    ELSE rangeArgsPlain(regs, p, args, cycle)

\* a recognized call whose indirect key is walked by the walk that attaches defaults
parseCustomFuncWithDefaultsNested(regs, p, args, cycle) ==
    IF MatchCustomFunc(regs, p.functionMatcher, args[1].Ident)
    THEN IF Len(args) > 1
         THEN IF args[2].type = "String"
              THEN Ret(<<literalKeyInfo(args)>>, NoError)
              ELSE appendInfos[<<getFieldFromNodeWithDefaults(regs, p, args[2], cycle)>>]
         ELSE Ret(<<>>, NoError)
    ELSE rangeArgsPlain(regs, p, args, cycle)

parseCustomFuncWithDefaults(regs, p, args, cycle) ==
    IF MatchCustomFunc(regs, p.functionMatcher, args[1].Ident)
    THEN IF Len(args) > 1
         THEN IF args[2].type = "String"
              THEN Ret(<<literalKeyInfo(args)>>, NoError)
              ELSE appendNames[<<getFieldFromNode(regs, p, args[2], cycle)>>]
         ELSE Ret(<<>>, NoError)
    ELSE rangeArgsPlain(regs, p, args, cycle)

getFieldFromNodeWithDefaults(regs, p, node, depth) ==
    CASE nodeCase(node, depth) = "depth > maxDepth" -> Ret(<<>>, DepthError)
      [] nodeCase(node, depth) = "Field" -> Ret(<<VariableInfo(Join(node.Ident), "")>>, NoError)
      [] nodeCase(node, depth) = "Command" ->
            IF node.Args[1].type = "Identifier"
            THEN appendInfos[<<parseCustomFuncWithDefaults(regs, p, node.Args, depth + 1)>>]
            ELSE appendInfos[[i \in 1..Len(node.Args) |->
                                getFieldFromNodeWithDefaults(regs, p, node.Args[i], depth + 1)]]
      [] nodeCase(node, depth) = "Action" ->
            appendInfos[<<getFieldFromNodeWithDefaults(regs, p, node.Pipe, depth + 1)>>]
      [] nodeCase(node, depth) = "Pipe" ->
            appendInfos[[i \in 1..Len(node.Cmds) |->
                            getFieldFromNodeWithDefaults(regs, p, node.Cmds[i], depth + 1)]]
      [] nodeCase(node, depth) = "List" ->
            appendInfos[[i \in 1..Len(node.Nodes) |->
                            getFieldFromNodeWithDefaults(regs, p, node.Nodes[i], depth + 1)]]
      [] nodeCase(node, depth) \in {"If", "Range", "With"} ->
            appendInfos[<<processIfAndWithAndRangeWithDefaults(regs, p, node.Pipe, node.List, node.ElseList, depth + 1)>>]
      [] OTHER -> Ret(<<>>, NoError)

(***************************************************************************)
(* The argument extractors a FunctionDefinition carries (functions_core,   *)
(* functions_custom, functions_confd).  args[1] is the function name, so   *)
(* Go's args[argIndex] is args[argIndex + 1] here.                         *)
(***************************************************************************)
\* NewParser(globalRegistry): a walker that recognises the functions of the global registry
globalParser == NewParser(NewRegistryFunctionMatcher("global"))

\* an extractor that goes on to the arguments after the one it is asked for
extractArgVariableOnwards(regs, args, cycle, argIndex, treatStringLiteralsAsVarNames) ==
    appendResult[[i \in 1..(Len(args) - argIndex) |->
                    getFieldFromNode(regs, globalParser, args[argIndex + i], cycle)]]

extractArgVariable(regs, args, cycle, argIndex, treatStringLiteralsAsVarNames) ==
    IF Len(args) > argIndex
    THEN IF args[argIndex + 1].type = "String"
         THEN IF treatStringLiteralsAsVarNames
              THEN Ret(<<args[argIndex + 1].Text>>, NoError)
              ELSE Ret(<<>>, NoError)
         ELSE appendResult[<<getFieldFromNode(regs, globalParser, args[argIndex + 1], cycle)>>]
    ELSE Ret(<<>>, NoError)

\* defaultArgIndex > 0 && len(args) > defaultArgIndex && args[defaultArgIndex] is a string literal
defaultOf(args, defaultArgIndex) ==
    IF defaultArgIndex > 0 /\ Len(args) > defaultArgIndex
    THEN IF args[defaultArgIndex + 1].type = "String" THEN args[defaultArgIndex + 1].Text ELSE ""
    ELSE ""

extractArgVariableWithDefaults(regs, args, cycle, argIndex, defaultArgIndex, treatStringLiteralsAsVarNames) ==
    IF Len(args) > argIndex
    THEN IF args[argIndex + 1].type = "String"
         THEN IF treatStringLiteralsAsVarNames
              THEN Ret(<<VariableInfo(args[argIndex + 1].Text, defaultOf(args, defaultArgIndex))>>,
                       NoError)
              ELSE Ret(<<>>, NoError)
         ELSE appendNames[<<getFieldFromNode(regs, globalParser, args[argIndex + 1], cycle)>>]
    ELSE Ret(<<>>, NoError)

extractStringArgVariable(regs, args, cycle, argIndex) ==
    extractArgVariable(regs, args, cycle, argIndex, TRUE)

extractStringArgVariableWithDefaults(regs, args, cycle, argIndex, defaultArgIndex) ==
    extractArgVariableWithDefaults(regs, args, cycle, argIndex, defaultArgIndex, TRUE)

extractKeyArgVariable(regs, args, cycle) == extractStringArgVariable(regs, args, cycle, 1)
extractKeyArgVariableInfo(regs, args, cycle) ==
    extractStringArgVariableWithDefaults(regs, args, cycle, 1, -1)

extractGetvVariables(regs, args, cycle) == extractStringArgVariable(regs, args, cycle, 1)
extractGetvVariablesWithDefaults(regs, args, cycle) ==
    extractStringArgVariableWithDefaults(regs, args, cycle, 1, 2)

extractNoVariables(regs, args, cycle) == Ret(<<>>, NoError)
extractNoVariablesInfo(regs, args, cycle) == Ret(<<>>, NoError)

extractSingleStringArgVariable(regs, args, cycle) == extractStringArgVariable(regs, args, cycle, 1)
extractSingleStringArgVariableInfo(regs, args, cycle) ==
    extractStringArgVariableWithDefaults(regs, args, cycle, 1, -1)

\* a transform function whose literal first argument is taken for a key
extractFirstArgVariableAsKey(regs, args, cycle) == extractArgVariable(regs, args, cycle, 1, TRUE)

extractFirstArgVariable(regs, args, cycle) == extractArgVariable(regs, args, cycle, 1, FALSE)
extractFirstArgVariableInfo(regs, args, cycle) ==
    extractArgVariableWithDefaults(regs, args, cycle, 1, -1, FALSE)

\* def.Extractor(args, cycle): the call through the function value a definition holds
callExtractor(extractor, regs, args, cycle) ==
    CASE extractor = "extractGetvVariables" -> extractGetvVariables(regs, args, cycle)
      [] extractor = "extractKeyArgVariable" -> extractKeyArgVariable(regs, args, cycle)
      [] extractor = "extractSingleStringArgVariable" ->
            extractSingleStringArgVariable(regs, args, cycle)
      [] extractor = "extractFirstArgVariable" -> extractFirstArgVariable(regs, args, cycle)
      [] extractor = "extractNoVariables" -> extractNoVariables(regs, args, cycle)

\* def.ExtractorWithDefaults(args, cycle)
callExtractorWithDefaults(extractor, regs, args, cycle) ==
    CASE extractor = "extractGetvVariablesWithDefaults" ->
            extractGetvVariablesWithDefaults(regs, args, cycle)
      [] extractor = "extractKeyArgVariableInfo" -> extractKeyArgVariableInfo(regs, args, cycle)
      [] extractor = "extractSingleStringArgVariableInfo" ->
            extractSingleStringArgVariableInfo(regs, args, cycle)
      [] extractor = "extractFirstArgVariableInfo" -> extractFirstArgVariableInfo(regs, args, cycle)
      [] extractor = "extractNoVariablesInfo" -> extractNoVariablesInfo(regs, args, cycle)

(***************************************************************************)
(* template.New(fileName).Funcs(funcs).Parse(fileContent): the upstream    *)
(* parser rejects malformed text and calls of functions that are neither   *)
(* built in nor in funcs.                                                  *)
(***************************************************************************)
Builtins ==
    {"and", "call", "html", "index", "slice", "js", "len", "not", "or", "print",
     "printf", "println", "urlquery", "eq", "ge", "gt", "le", "lt", "ne"}

\* the function names a template calls
RECURSIVE TreeIdents(_)
TreeIdents(node) ==
    CASE node.type = "Identifier" -> {node.Ident}
      [] node.type = "Command" -> UNION {TreeIdents(node.Args[i]) : i \in 1..Len(node.Args)}
      [] node.type = "Pipe" -> UNION {TreeIdents(node.Cmds[i]) : i \in 1..Len(node.Cmds)}
      [] node.type = "List" -> UNION {TreeIdents(node.Nodes[i]) : i \in 1..Len(node.Nodes)}
      [] node.type \in {"Action", "Template"} -> TreeIdents(node.Pipe)
      [] node.type = "Chain" -> TreeIdents(node.Node)
      [] node.type \in {"If", "Range", "With"} ->
            UNION {TreeIdents(node.Pipe), TreeIdents(node.List), TreeIdents(node.ElseList)}
      [] OTHER -> {}

\* Funcs panics on a name that is no identifier
FuncsPanic == "panic: function name \"\" is not a valid identifier"

Parse(src, funcs) ==
    IF "" \in funcs THEN [Root |-> Nil, err |-> FuncsPanic]
    ELSE IF src.wellFormed /\ TreeIdents(src.root) \subseteq (funcs \cup Builtins)
    THEN [Root |-> src.root, err |-> NoError]
    ELSE [Root |-> Nil, err |-> ParseError]

createMinimalFuncMap(regs, p) == GetMinimalFuncMap(regs[p.functionRegistry])

\* fmt.Errorf("<parsing template file> %s <failed>: %v", fileName, err)
Errorf(err) == "template.tmpl: " \o err

\* if err != nil { return nil, fmt.Errorf(...) }; return result, nil
returnResult(son) ==
    IF son.err # NoError THEN Ret(<<>>, Errorf(son.err)) ELSE Ret(son.result, NoError)

\* if err != nil { return nil, fmt.Errorf(...) }; a panic of Funcs is not wrapped
parseFailed(err) == IF err = FuncsPanic THEN Ret(<<>>, FuncsPanic) ELSE Ret(<<>>, Errorf(err))

ExtractVariables(regs, p, src) ==
    IF Parse(src, createMinimalFuncMap(regs, p)).err # NoError
    THEN parseFailed(Parse(src, createMinimalFuncMap(regs, p)).err)
    ELSE returnResult(getFieldFromNode(regs, p, Parse(src, createMinimalFuncMap(regs, p)).Root, 0))

ExtractVariablesWithDefaults(regs, p, src) ==
    IF Parse(src, createMinimalFuncMap(regs, p)).err # NoError
    THEN parseFailed(Parse(src, createMinimalFuncMap(regs, p)).err)
    ELSE returnResult(getFieldFromNodeWithDefaults(regs, p,
                          Parse(src, createMinimalFuncMap(regs, p)).Root, 0))

(***************************************************************************)
(* Rendering (functions_custom): the strict accessor looks its key up in    *)
(* the values the caller supplies.                                          *)
(***************************************************************************)
\* the functions CreateRenderFuncMap offers a template at render time
CreateRenderFuncMap == {"getv", "exists", "get", "json", "jsonArray"}

\* a get that takes an empty or nil value for a missing key
getNonEmpty(variables, key) ==
    IF key \in DOMAIN variables /\ variables[key] \notin {Nil, [type |-> "string", str |-> <<>>]}
    THEN [val |-> variables[key], err |-> NoError]
    ELSE [val |-> Nil, err |-> "key " \o key \o " not found"]

getRenderHandler(variables, key) ==
    IF key \in DOMAIN variables
    THEN [val |-> variables[key], err |-> NoError]
    ELSE [val |-> Nil, err |-> "key " \o key \o " not found"]

\* a Go string held in an interface{}: its text is a sequence of tokens
StringValue(s) == [type |-> "string", str |-> s]

\* a Go bool
BoolValue(b) == [type |-> "bool", str |-> IF b THEN <<"true">> ELSE <<"false">>]

\* key string of a "not found" error
NotFound(key) == "key " \o key \o " not found"

\* a getv that hands back whatever the key holds
getvPresentValue(variables, key, v) ==
    IF key \in DOMAIN variables THEN [val |-> variables[key], err |-> NoError]
    ELSE IF Len(v) > 0 THEN [val |-> StringValue(v[1]), err |-> NoError]
    ELSE [val |-> StringValue(<<>>), err |-> NoError]

getvRenderHandler(variables, key, v) ==
    IF key \in DOMAIN variables /\ variables[key].type = "string" /\ variables[key].str # <<>>
    THEN [val |-> StringValue(variables[key].str), err |-> NoError]
    ELSE IF Len(v) > 0 THEN [val |-> StringValue(v[1]), err |-> NoError]
    ELSE [val |-> StringValue(<<>>), err |-> NoError]

existsRenderHandler(variables, key) == [val |-> BoolValue(key \in DOMAIN variables), err |-> NoError]

(***************************************************************************)
(* encoding/json as the handlers use it: Unmarshal of a text into a        *)
(* map[string]interface{} or a []interface{}.  A text is a sequence of     *)
(* JSON tokens.                                                            *)
(***************************************************************************)
JSONFail == [ok |-> FALSE, next |-> 0, kind |-> "invalid"]

RECURSIVE parseValue(_, _)
RECURSIVE parseElements(_, _)
RECURSIVE parseMembers(_, _)
\* one JSON value starting at token i: the kind of the value and the place after it
parseValue(data, i) ==
    IF i > Len(data) THEN JSONFail
    ELSE CASE data[i] = "null" -> [ok |-> TRUE, next |-> i + 1, kind |-> "null"]
           [] data[i] = "1" -> [ok |-> TRUE, next |-> i + 1, kind |-> "number"]
           [] data[i] = "\"k\"" -> [ok |-> TRUE, next |-> i + 1, kind |-> "string"]
           [] data[i] = "[" ->
                IF i + 1 <= Len(data) /\ data[i + 1] = "]"
                THEN [ok |-> TRUE, next |-> i + 2, kind |-> "array"]
                ELSE parseElements(data, i + 1)
           [] data[i] = "{" ->
                IF i + 1 <= Len(data) /\ data[i + 1] = "}"
                THEN [ok |-> TRUE, next |-> i + 2, kind |-> "object"]
                ELSE parseMembers(data, i + 1)
           [] OTHER -> JSONFail

\* the elements of an array from token i up to its closing bracket
parseElements(data, i) ==
    LET elem == parseValue(data, i) IN
    IF ~elem.ok \/ elem.next > Len(data) THEN JSONFail
    ELSE IF data[elem.next] = "," THEN parseElements(data, elem.next + 1)
    ELSE IF data[elem.next] = "]" THEN [ok |-> TRUE, next |-> elem.next + 1, kind |-> "array"]
    ELSE JSONFail

\* the members of an object from token i up to its closing brace
parseMembers(data, i) ==
    IF i + 1 > Len(data) \/ data[i] # "\"k\"" \/ data[i + 1] # ":" THEN JSONFail
    ELSE LET member == parseValue(data, i + 2) IN
         IF ~member.ok \/ member.next > Len(data) THEN JSONFail
         ELSE IF data[member.next] = "," THEN parseMembers(data, member.next + 1)
         ELSE IF data[member.next] = "}" THEN [ok |-> TRUE, next |-> member.next + 1, kind |-> "object"]
         ELSE JSONFail

\* the kind of value a whole text holds; "invalid" when it is not one JSON value
JSONKind(data) ==
    LET value == parseValue(data, 1) IN
    IF value.ok /\ value.next = Len(data) + 1 THEN value.kind ELSE "invalid"

\* json.Unmarshal(data, &result) with result a nil map ("object") or a nil
\* slice ("array"): null leaves result nil and is no error
Unmarshal(data, into) ==
    CASE JSONKind(data) = "invalid" -> [val |-> Nil, err |-> "invalid character"]
      [] JSONKind(data) = "null" -> [val |-> Nil, err |-> NoError]
      [] JSONKind(data) = into -> [val |-> [type |-> into, str |-> data], err |-> NoError]
      [] OTHER -> [val |-> Nil, err |-> "json: cannot unmarshal " \o JSONKind(data)]

jsonRenderHandler(variables, key) ==
    IF key \in DOMAIN variables /\ variables[key].type = "string"
    THEN Unmarshal(variables[key].str, "object")
    ELSE [val |-> Nil, err |-> NotFound(key)]

jsonArrayRenderHandler(variables, key) ==
    IF key \in DOMAIN variables /\ variables[key].type = "string"
    THEN Unmarshal(variables[key].str, "array")
    ELSE [val |-> Nil, err |-> NotFound(key)]

\* GetConfdRenderFuncMap's "json": nil, nil when there is no string to parse
confdJson(variables, key) ==
    IF key \in DOMAIN variables /\ variables[key].type = "string"
    THEN Unmarshal(variables[key].str, "object")
    ELSE [val |-> Nil, err |-> NoError]

\* GetConfdRenderFuncMap's "jsonArray"
confdJsonArray(variables, key) ==
    IF key \in DOMAIN variables /\ variables[key].type = "string"
    THEN Unmarshal(variables[key].str, "array")
    ELSE [val |-> Nil, err |-> NoError]

\* GetConfdRenderFuncMap's "getv"
confdGetv(variables, key, v) ==
    IF key \in DOMAIN variables /\ variables[key].type = "string" /\ variables[key].str # <<>>
    THEN [val |-> StringValue(variables[key].str), err |-> NoError]
    ELSE IF Len(v) > 0 THEN [val |-> StringValue(v[1]), err |-> NoError]
    ELSE [val |-> StringValue(<<>>), err |-> NoError]

\* GetConfdRenderFuncMap's "get"
confdGet(variables, key) ==
    IF key \in DOMAIN variables
    THEN [val |-> variables[key], err |-> NoError]
    ELSE [val |-> Nil, err |-> NotFound(key)]

\* the handlers registered for parsing: they take no values and return zero values
MinimalHandler(handler) ==
    CASE handler = "getvMinimalHandler" -> [val |-> StringValue(<<>>), err |-> NoError]
      [] handler = "existsMinimalHandler" -> [val |-> BoolValue(FALSE), err |-> NoError]
      [] OTHER -> [val |-> Nil, err |-> NoError]

\* the names whose render functions look a key up in the values
Accessors == {"getv", "exists", "get", "json", "jsonArray"}

\* functions_custom: name -> the handler made over the values
GetCustomRenderFuncMap == [n \in CreateRenderFuncMap |-> n \o "RenderHandler"]

\* functions_confd: name -> the function literal of the map
GetConfdRenderFuncMap ==
    [n \in Accessors \cup {ConfdFirstArgFunctions[i] : i \in 1..Len(ConfdFirstArgFunctions)}
                     \cup {ConfdNoVariableFunctions[i] : i \in 1..Len(ConfdNoVariableFunctions)}
        |-> "confd." \o n]

\* the function map the build's CreateRenderFuncMap returns
CreateRenderFuncMapOf(variant) ==
    CASE variant = "official" -> [n \in {} |-> ""]
      [] variant = "custom" -> GetCustomRenderFuncMap
      [] variant = "confd" -> GetConfdRenderFuncMap

\* FunctionRegistry.GetRenderFuncMap: funcMap[name] = def.Handler, whatever the values
GetRenderFuncMap(functions, variables) == [n \in DOMAIN functions |-> functions[n].Handler]

\* a call of an entry of a function map with a key and optional defaults
callHandler(handler, variables, key, v) ==
    CASE handler = "getvRenderHandler" -> getvRenderHandler(variables, key, v)
      [] handler = "existsRenderHandler" -> existsRenderHandler(variables, key)
      [] handler = "getRenderHandler" -> getRenderHandler(variables, key)
      [] handler = "jsonRenderHandler" -> jsonRenderHandler(variables, key)
      [] handler = "jsonArrayRenderHandler" -> jsonArrayRenderHandler(variables, key)
      [] handler = "confd.getv" -> confdGetv(variables, key, v)
      [] handler = "confd.exists" -> existsRenderHandler(variables, key)
      [] handler = "confd.get" -> confdGet(variables, key)
      [] handler = "confd.json" -> confdJson(variables, key)
      [] handler = "confd.jsonArray" -> confdJsonArray(variables, key)
      [] OTHER -> MinimalHandler(handler)

(***************************************************************************)
(* Templates submitted for extraction: the trees the upstream parser       *)
(* produces for small template texts.                                      *)
(***************************************************************************)
FName == FieldNode(<<"Name">>)               \* .Name
FUserName == FieldNode(<<"User", "Name">>)   \* .User.Name
SKey == StringNode("key")                    \* "key"
SFallback == StringNode("fallback")          \* "fallback"

FuncIdents == {"getv", "get", "base", "printf"}

ArgLists ==
    {<<>>, <<SKey>>, <<FName>>, <<NumberNode>>, <<SKey, SFallback>>, <<SKey, FName>>,
     <<FName, SFallback>>, <<FUserName, FName>>}

Call(f, args) == CommandNode(<<IdentifierNode(f)>> \o args)
Paren(cmd) == PipeNode(<<cmd>>)

\* {{f}}, {{f "key"}}, {{f .Name}}, {{f 1}}, {{f "key" "fallback"}}, ...
SimpleCalls == {Call(f, as) : f \in FuncIdents, as \in ArgLists}

\* {{.Name}}, {{.User.Name}}, {{"key"}}
Values == {CommandNode(<<a>>) : a \in {FName, FUserName, SKey}}

InnerCmds ==
    {Call("getv", <<SKey, SFallback>>), Call("get", <<StringNode("other")>>),
     CommandNode(<<FUserName>>)}

\* {{f (g ...)}}, {{f "key" (g ...)}}, {{f "key" "fallback" .User.Name}}
NestedCalls ==
    {Call(f, <<Paren(c)>>) : f \in FuncIdents, c \in InnerCmds}
    \cup {Call(f, <<SKey, Paren(c)>>) : f \in FuncIdents, c \in InnerCmds}
    \cup {Call(f, <<SKey, SFallback, FUserName>>) : f \in FuncIdents}

\* {{(.Name).Field}} and {{$x.field}}
OtherCmds ==
    {CommandNode(<<ChainNode(Paren(CommandNode(<<FName>>)), <<"Field">>)>>),
     CommandNode(<<VariableNode>>)}

Cmds == SimpleCalls \cup Values \cup NestedCalls \cup OtherCmds

\* {{"key" | get}}, {{.Name | printf}}, {{.Name | base}}, {{getv "key" "fallback" | printf}}
Pipelines ==
    {PipeNode(<<c>>) : c \in Cmds}
    \cup {PipeNode(<<CommandNode(<<SKey>>), Call("get", <<>>)>>),
          PipeNode(<<CommandNode(<<FName>>), Call("printf", <<>>)>>),
          PipeNode(<<CommandNode(<<FName>>), Call("base", <<>>)>>),
          PipeNode(<<Call("getv", <<SKey, SFallback>>), Call("printf", <<>>)>>)}

Actions == {ActionNode(pp) : pp \in Pipelines}

GuardName == PipeNode(<<CommandNode(<<FName>>)>>)   \* the pipeline of {{if .Name}}

Guards == {GuardName, PipeNode(<<Call("getv", <<SKey, SFallback>>)>>)}

Bodies ==
    {ListNode(<<ActionNode(PipeNode(<<CommandNode(<<FUserName>>)>>))>>),
     ListNode(<<TextNode, ActionNode(PipeNode(<<Call("getv", <<StringNode("body"), SFallback>>)>>))>>)}

ElseBodies ==
    {Nil,
     ListNode(<<ActionNode(PipeNode(<<CommandNode(<<FieldNode(<<"Default">>)>>)>>))>>),
     ListNode(<<ActionNode(PipeNode(<<Call("getv", <<StringNode("else"), StringNode("anonymous")>>)>>))>>)}

BlockKinds == {"If", "Range", "With"}

\* {{if g}}b{{end}}, {{range g}}b{{else}}e{{end}}, {{with g}}b{{else}}e{{end}}, ...
Blocks ==
    {[type |-> kind, Pipe |-> g, List |-> b, ElseList |-> e] :
        kind \in BlockKinds, g \in Guards, b \in Bodies, e \in ElseBodies}

\* {{template "t" .Name}}
Includes == {TemplateNode("t", PipeNode(<<CommandNode(<<FName>>)>>))}

\* k parenthesised pipelines around a command: {{((( cmd )))}}
RECURSIVE Wrap(_, _)
Wrap(cmd, k) ==
    IF k = 0 THEN cmd
    ELSE [type |-> "Command", Args |-> <<[type |-> "Pipe", Cmds |-> <<Wrap(cmd, k - 1)>>]>>]

\* k nested if blocks around a list
RECURSIVE WrapIf(_, _)
WrapIf(list, k) ==
    IF k = 0 THEN list
    ELSE [type |-> "List",
          Nodes |-> <<[type |-> "If", Pipe |-> GuardName, List |-> WrapIf(list, k - 1), ElseList |-> Nil]>>]

DeepLeaves == {CommandNode(<<FName>>), Call("getv", <<SKey>>), Call("printf", <<SKey>>)}

NestDepths == (MaxNest - 2)..MaxNest

\* {{.User.Name}}{{(((...)))}} and {{if .Name}}{{if .Name}}...{{end}}{{end}}
Nests ==
    {ListNode(<<ActionNode(Paren(CommandNode(<<FUserName>>))),
                ActionNode(Paren(Wrap(c, k)))>>) : c \in DeepLeaves, k \in NestDepths}
    \cup {WrapIf(ListNode(<<ActionNode(Paren(c))>>), k) : c \in DeepLeaves, k \in NestDepths}

\* {{.Name}}{{.Name}}... and {{getv "key" "fallback"}}{{if .Name}}{{.User.Name}}{{end}}...
SiblingRoots ==
    {ListNode([i \in 1..MaxSiblings |-> ActionNode(Paren(CommandNode(<<FName>>)))]),
     ListNode([i \in 1..MaxSiblings |->
                 IF i % 2 = 1 THEN ActionNode(Paren(Call("getv", <<SKey, SFallback>>)))
                 ELSE [type |-> "If", Pipe |-> GuardName,
                       List |-> ListNode(<<ActionNode(Paren(CommandNode(<<FUserName>>)))>>),
                       ElseList |-> Nil]])}

\* {{seq .Name}}, {{join (getv "key" "fallback")}}, {{seq 1 .Name}}, ...
UtilityCalls ==
    {Call(f, as) : f \in {"seq", "join"},
                   as \in {<<FName>>, <<Paren(Call("getv", <<SKey, SFallback>>))>>,
                            <<NumberNode, FName>>}}

Roots ==
    {ListNode(<<TextNode, n>>) : n \in Actions \cup Blocks \cup Includes}
    \cup {ListNode(<<TextNode, ActionNode(Paren(c))>>) : c \in UtilityCalls}
    \cup SiblingRoots
    \cup {ListNode(<<ActionNode(Paren(CommandNode(<<FName>>))), TextNode, n>>) :
            n \in {ActionNode(Paren(CommandNode(<<FName>>))),
                   ActionNode(Paren(Call("getv", <<SKey, SFallback>>))),
                   ActionNode(Paren(Call("getv", <<SKey>>)))}}
    \cup Nests

Source(root) == [wellFormed |-> TRUE, root |-> root]
Malformed == [wellFormed |-> FALSE, root |-> ListNode(<<>>)]   \* {{.unclosed

Templates == {Source(r) : r \in Roots} \cup {Malformed}

\* every command of a template with the depth at which the walker meets it
RECURSIVE Commands(_, _)
Commands(node, depth) ==
    CASE node.type = "Command" ->
            {[args |-> node.Args, cycle |-> depth]}
            \cup UNION {Commands(node.Args[i], depth + 1) : i \in 1..Len(node.Args)}
      [] node.type = "Pipe" -> UNION {Commands(node.Cmds[i], depth + 1) : i \in 1..Len(node.Cmds)}
      [] node.type = "List" -> UNION {Commands(node.Nodes[i], depth + 1) : i \in 1..Len(node.Nodes)}
      [] node.type \in {"Action", "Template"} -> Commands(node.Pipe, depth + 1)
      [] node.type = "Chain" -> Commands(node.Node, depth + 1)
      [] node.type \in BlockKinds ->
            UNION {Commands(node.Pipe, depth + 1), Commands(node.List, depth + 1),
                   Commands(node.ElseList, depth + 1)}
      [] OTHER -> {}

(***************************************************************************)
(* Start-up: the build variant's init() fills the global registry, and the *)
(* caller constructs the Parser.                                           *)
(***************************************************************************)
Variants == {"official", "custom", "confd"}

GlobalRegistryOf(variant) ==
    CASE variant = "official" -> NewFunctionRegistry
      [] variant = "custom" -> registerCustomFunctions(NewFunctionRegistry)
      [] variant = "confd" -> registerConfdFunctions(NewFunctionRegistry)

\* the test helper's registry: registry := NewFunctionRegistry() and five registrations
NewCustomFunctionsRegistry == registerCustomFunctions(NewFunctionRegistry)

\* the parser the test helper makes over its own registry
NewParserWithCustomFunctions == NewParserWithRegistry(NewRegistryFunctionMatcher("own"), "own")

\* the registries a caller registers functions in
RegistryIds == {"global", "own"}

\* the parsers the builds construct
BuildParsersOf(variant) ==
    CASE variant = "official" -> {NewParser(NewOfficialFunctionMatcher)}
      [] variant = "custom" ->
            {NewParser(NewDefaultFunctionMatcher),
             NewParserWithRegistry(NewRegistryFunctionMatcher("global"), "global")}
      [] variant = "confd" ->
            {NewParserWithRegistry(NewRegistryFunctionMatcher("global"), "global"),
             NewParserWithRegistry(
                NewCompositeFunctionMatcher(
                    <<NewDefaultFunctionMatcher, NewRegistryFunctionMatcher("global")>>),
                "global")}

\* the parsers the builds and their tests construct
ParsersOf(variant) == BuildParsersOf(variant) \cup {NewParserWithCustomFunctions}

\* definitions a caller registers after start-up
LateDefinitions ==
    {FunctionDefinition("base", "extractFirstArgVariable", "extractFirstArgVariableInfo"),
     FunctionDefinition("getv", "extractNoVariables", "extractNoVariablesInfo"),
     FunctionDefinition("", "extractNoVariables", "extractNoVariablesInfo")}

NoCall == [args |-> <<>>, cycle |-> 0, names |-> NotCalled, infos |-> NotCalled, during |-> "none"]

\* no render function called yet
NoRender == [builder |-> "none", func |-> "none", key |-> "", v |-> <<>>, handler |-> "none", ret |-> Nil]

\* variables := map[string]interface{}{}
NoVariables == [k \in {} |-> Nil]

\* no MatchCustomFunc call made yet
NoMatch == [funcName |-> "none", ret |-> FALSE]

(***************************************************************************)
(* The page's WASMUtils (lib/wasm-utils.ts): the object that loads the     *)
(* WASM build of the extractor.  Two versions are in the repository: the   *)
(* one that loads main.wasm and the one that loads the file of a model.    *)
(***************************************************************************)
WasmModels == {"official", "custom", "confd"}

Versions == {"main.wasm", "models"}

\* the models initialize is called with: the earlier version takes none
ModelsOf(version) == IF version = "models" THEN WasmModels ELSE {"main"}

\* new WASMUtils(): isInitialized = false, initializationPromise = null,
\* currentModel = 'official'; no load started, nothing registered on window
NewWASMUtils(version) ==
    [version |-> version,
     isInitialized |-> FALSE,
     initializationPromise |-> 0,
     currentModel |-> IF version = "models" THEN "official" ELSE "main",
     promises |-> <<>>,
     calls |-> <<>>,
     window |-> "none"]

\* the state every process starts in
Start ==
    /\ \E variant \in Variants :
         /\ registries = [global |-> GlobalRegistryOf(variant), default |-> DefaultFunctions,
                          own |-> NewCustomFunctionsRegistry]
         /\ parser \in ParsersOf(variant)
         /\ build = variant
    /\ fileContent = NoTemplate
    /\ names = NotCalled
    /\ infos = NotCalled
    /\ extracted = NoCall
    /\ registered = 0
    /\ supplied = NoVariables
    /\ rendered = NoRender
    /\ matched = NoMatch

Init ==
    /\ Start
    /\ wasm = NewWASMUtils("models")

(***************************************************************************)
(* Operations.                                                             *)
(***************************************************************************)
\* the caller takes a new template text
SetTemplate(src) ==
    /\ fileContent = NoTemplate
    /\ fileContent' = src
    /\ UNCHANGED <<registries, parser, names, infos, extracted, registered>>
    /\ UNCHANGED renderVars
    /\ UNCHANGED frontVars

\* the caller drops the template text and its results
ClearTemplate ==
    /\ fileContent # NoTemplate
    /\ fileContent' = NoTemplate
    /\ names' = NotCalled
    /\ infos' = NotCalled
    /\ extracted' = NoCall
    /\ UNCHANGED <<registries, parser, registered>>
    /\ UNCHANGED renderVars
    /\ UNCHANGED frontVars

DoExtractVariables ==
    /\ fileContent # NoTemplate
    /\ names' = ExtractVariables(registries, parser, fileContent)
    /\ UNCHANGED <<registries, parser, fileContent, infos, extracted, registered>>
    /\ UNCHANGED renderVars
    /\ UNCHANGED frontVars

DoExtractVariablesWithDefaults ==
    /\ fileContent # NoTemplate
    /\ infos' = ExtractVariablesWithDefaults(registries, parser, fileContent)
    /\ UNCHANGED <<registries, parser, fileContent, names, extracted, registered>>
    /\ UNCHANGED renderVars
    /\ UNCHANGED frontVars

\* the registry whose definitions carry the extractors of a parser's calls: the
\* registry the parser was made over, the global one for a parser made by NewParser
configuredRegistry(p) == IF p.functionRegistry = "default" THEN "global" ELSE p.functionRegistry

\* def.Extractor(args, cycle) and def.ExtractorWithDefaults(args, cycle) of the
\* definition registered for the function of the call
extractCall(regs, p, call, during) ==
    [args |-> call.args,
     cycle |-> call.cycle,
     names |-> callExtractor(
                   GetFunction(regs[configuredRegistry(p)], call.args[1].Ident).def.Extractor,
                   regs, call.args, call.cycle),
     infos |-> callExtractorWithDefaults(
                   GetFunction(regs[configuredRegistry(p)],
                               call.args[1].Ident).def.ExtractorWithDefaults,
                   regs, call.args, call.cycle),
     during |-> during]

\* a call of a registered function is handed to the extractors its definition carries
DoExtractCall(call) ==
    /\ call.args[1].type = "Identifier"
    /\ GetFunction(registries[configuredRegistry(parser)], call.args[1].Ident).exists
    /\ extracted' = extractCall(registries, parser, call, "none")
    /\ UNCHANGED <<registries, parser, fileContent, names, infos, registered>>
    /\ UNCHANGED renderVars
    /\ UNCHANGED frontVars

\* r.functions[def.Name] = def; results of earlier extractions are stale
RegisterFunctionWithin(bound, rid, def) ==
    /\ registered < bound
    /\ registered' = registered + 1
    /\ registries' = [registries EXCEPT ![rid] = RegisterFunctionIn(registries[rid], def)]
    /\ names' = NotCalled
    /\ infos' = NotCalled
    /\ extracted' = NoCall
    /\ UNCHANGED <<parser, fileContent>>
    /\ UNCHANGED renderVars
    /\ UNCHANGED frontVars

\* a registration made while templates are being worked on
RegisterFunction(rid, def) == RegisterFunctionWithin(MaxRegistered, rid, def)

(***************************************************************************)
(* An extraction and a registration made by two threads at once.  The       *)
(* registry is a Go map without a lock: a write during a read of the same   *)
(* instance is a data race, whose outcomes are the read before the write,   *)
(* the read after it, and the runtime's fatal error.                        *)
(***************************************************************************)
RaceError == "fatal error: concurrent map read and map write"

\* the function names whose recognition the walk of a node asks of the matcher
RECURSIVE Asked(_, _, _)
Asked(regs, p, node) ==
    CASE node.type = "Command" ->
            IF node.Args[1].type = "Identifier"
            THEN {node.Args[1].Ident}
                 \cup (IF MatchCustomFunc(regs, p.functionMatcher, node.Args[1].Ident)
                       THEN IF Len(node.Args) > 1 THEN Asked(regs, p, node.Args[2]) ELSE {}
                       ELSE UNION {Asked(regs, p, node.Args[i]) : i \in 1..Len(node.Args)})
            ELSE UNION {Asked(regs, p, node.Args[i]) : i \in 1..Len(node.Args)}
      [] node.type = "Action" -> Asked(regs, p, node.Pipe)
      [] node.type = "Pipe" -> UNION {Asked(regs, p, node.Cmds[i]) : i \in 1..Len(node.Cmds)}
      [] node.type = "List" -> UNION {Asked(regs, p, node.Nodes[i]) : i \in 1..Len(node.Nodes)}
      [] node.type \in BlockKinds ->
            UNION {Asked(regs, p, n) : n \in {node.Pipe, node.List, node.ElseList} \ {Nil}}
      [] OTHER -> {}

\* the extractor walks its argument with NewParser(globalRegistry)
walksArgument(extractor, args) ==
    /\ extractor # "extractNoVariables"
    /\ Len(args) > 1
    /\ args[2].type # "String"

\* the registry instances the extraction of a call reads: the one its
\* definition is looked up in, and the global one when an extractor walks an
\* argument that holds a call
callReads(regs, p, call) ==
    {configuredRegistry(p)}
    \cup (IF /\ walksArgument(GetFunction(regs[configuredRegistry(p)],
                                         call.args[1].Ident).def.Extractor, call.args)
             /\ Asked(regs, globalParser, call.args[2]) # {}
          THEN {"global"} ELSE {})

\* what the extraction of a call can return while rid is written
racingReturns(regs, after, p, call, rid) ==
    IF rid \in callReads(regs, p, call)
    THEN {extractCall(regs, p, call, rid), extractCall(after, p, call, rid),
          [args |-> call.args, cycle |-> call.cycle, names |-> Ret(<<>>, RaceError),
           infos |-> Ret(<<>>, RaceError), during |-> rid]}
    ELSE {extractCall(regs, p, call, rid)}

\* one thread extracts a call while another registers def in the registry rid
RegisterDuringExtractCall(call, rid, def) ==
    /\ registered < MaxRegistered
    /\ call.args[1].type = "Identifier"
    /\ GetFunction(registries[configuredRegistry(parser)], call.args[1].Ident).exists
    /\ registered' = registered + 1
    /\ registries' = [registries EXCEPT ![rid] = RegisterFunctionIn(registries[rid], def)]
    /\ extracted' \in racingReturns(registries, registries', parser, call, rid)
    /\ names' = NotCalled
    /\ infos' = NotCalled
    /\ UNCHANGED <<parser, fileContent>>
    /\ UNCHANGED renderVars
    /\ UNCHANGED frontVars

Next ==
    \/ \E src \in Templates : SetTemplate(src)
    \/ ClearTemplate
    \/ DoExtractVariables
    \/ DoExtractVariablesWithDefaults
    \/ \E call \in Commands(fileContent.root, 1) : DoExtractCall(call)
    \/ \E rid \in RegistryIds, def \in LateDefinitions : RegisterFunction(rid, def)
    \/ \E call \in Commands(fileContent.root, 1), rid \in RegistryIds, def \in LateDefinitions :
            RegisterDuringExtractCall(call, rid, def)

Spec == Init /\ [][Next]_vars

(***************************************************************************)
(* Rendering: the caller supplies values, builds a function map over them   *)
(* and the template's calls run the map's entries.                          *)
(***************************************************************************)
\* texts a supplied string holds
RenderTexts ==
    {<<>>, <<"plain">>, <<"1">>, <<"null">>, <<"\"k\"">>,
     <<"{", "}">>, <<"{", "\"k\"", ":", "1", "}">>, <<"{", "\"k\"", ":", "[", "]", ",", "\"k\"", ":", "null", "}">>,
     <<"[", "]">>, <<"[", "1", ",", "{", "}", "]">>,
     <<"{">>, <<"{", "}", "}">>, <<"[", "1", ",", "]">>, <<"{", "1", ":", "1", "}">>}

\* values of the variables map: strings, a number, nil
SuppliedValues == {StringValue(t) : t \in RenderTexts} \cup {[type |-> "float64", str |-> <<"1">>], Nil}

\* keys the templates look up; only the first is ever supplied
RenderKeys == {"key", "other"}

\* the default arguments of a getv call: none, one, or an empty one
RenderDefaults == {<<>>, <<(<<"fallback">>)>>, <<(<<>>)>>}

\* the two places a function map for rendering comes from
RenderBuilders == {"CreateRenderFuncMap", "GetRenderFuncMap"}

\* the function map a builder returns for the values
RenderFuncMap(builder, regs, variant, variables) ==
    IF builder = "CreateRenderFuncMap" THEN CreateRenderFuncMapOf(variant)
    ELSE GetRenderFuncMap(regs.global, variables)

\* variables[key] = value
SetVariables(key, value) ==
    /\ supplied' = [k \in (DOMAIN supplied) \cup {key} |-> IF k = key THEN value ELSE supplied[k]]
    /\ supplied' # supplied
    /\ rendered' = NoRender
    /\ UNCHANGED <<registries, parser, fileContent, names, infos, extracted, registered, build>>
    /\ UNCHANGED frontVars

\* the template {{name key v...}} is executed with the builder's function map
CallRender(builder, name, key, v) ==
    /\ LET funcMap == RenderFuncMap(builder, registries, build, supplied) IN
         rendered' =
            IF name \in DOMAIN funcMap
            THEN [builder |-> builder, func |-> name, key |-> key, v |-> v, handler |-> funcMap[name],
                  ret |-> callHandler(funcMap[name], supplied, key, v)]
            ELSE [builder |-> builder, func |-> name, key |-> key, v |-> v, handler |-> "none",
                  ret |-> [val |-> Nil, err |-> "function \"" \o name \o "\" not defined"]]
    /\ rendered' # rendered
    /\ UNCHANGED <<registries, parser, fileContent, names, infos, extracted, registered, build, supplied>>
    /\ UNCHANGED frontVars

RenderNext ==
    \/ \E value \in SuppliedValues : SetVariables("key", value)
    \/ \E builder \in RenderBuilders, name \in Accessors, key \in RenderKeys :
          \E v \in (IF name = "getv" THEN RenderDefaults ELSE {<<>>}) : CallRender(builder, name, key, v)
    \/ \E def \in LateDefinitions : RegisterFunction("global", def)

RenderSpec == Init /\ [][RenderNext]_vars

(***************************************************************************)
(* Registration: a caller fills the registries call after call.            *)
(***************************************************************************)
RegistryNext == \E rid \in RegistryIds, def \in LateDefinitions : RegisterFunctionWithin(MaxSequence, rid, def)

RegistrySpec == Init /\ [][RegistryNext]_vars

(***************************************************************************)
(* Matching: a caller makes a parser over a matcher of its choice and asks *)
(* the matcher about function names.                                       *)
(***************************************************************************)
\* the matchers a composite is made of
SubMatchers ==
    {NewDefaultFunctionMatcher, NewOfficialFunctionMatcher,
     NewRegistryFunctionMatcher("global"), NewRegistryFunctionMatcher("own")}

\* matchers ...FunctionMatcher: none, one or several
MatcherLists == UNION {[1..n -> SubMatchers] : n \in 0..MaxMatchers}

\* the names MatchCustomFunc is asked about
MatchNames == {"", "getv", "Getv", "jsonv", "json", "base", "neverRegistered"}

\* NewParser(NewCompositeFunctionMatcher(matchers...))
NewCompositeParser(matchers) ==
    /\ parser' = NewParser(NewCompositeFunctionMatcher(matchers))
    /\ parser' # parser
    /\ matched' = NoMatch
    /\ UNCHANGED <<registries, fileContent, names, infos, extracted, registered, wasm>>
    /\ UNCHANGED renderVars

\* NewParser(matcher) over a default, an official or a registry matcher
NewSimpleParser(matcher) ==
    /\ parser' = NewParser(matcher)
    /\ parser' # parser
    /\ matched' = NoMatch
    /\ UNCHANGED <<registries, fileContent, names, infos, extracted, registered, wasm>>
    /\ UNCHANGED renderVars

\* p.functionMatcher.MatchCustomFunc(funcName)
DoMatchCustomFunc(funcName) ==
    /\ matched' = [funcName |-> funcName,
                   ret |-> MatchCustomFunc(registries, parser.functionMatcher, funcName)]
    /\ matched' # matched
    /\ UNCHANGED <<registries, parser, fileContent, names, infos, extracted, registered, wasm>>
    /\ UNCHANGED renderVars

MatcherNext ==
    \/ \E matchers \in MatcherLists : NewCompositeParser(matchers)
    \/ \E matcher \in SubMatchers : NewSimpleParser(matcher)
    \/ \E funcName \in MatchNames : DoMatchCustomFunc(funcName)
    \/ \E rid \in RegistryIds, def \in LateDefinitions : RegisterFunction(rid, def)

MatcherSpec == Init /\ [][MatcherNext]_vars

(***************************************************************************)
(* The front end's WASMUtils.  A promise is an entry of wasm.promises, a   *)
(* call of initialize an entry of wasm.calls with the promise it awaits    *)
(* or returns (0 when it returns at once); the steps of the event loop are *)
(* a call of initialize up to its first await, and the end of a load with  *)
(* the continuations that wait for it.                                     *)
(***************************************************************************)
Callers == {"initialize", "extractVariables"}

\* a promise of loadWASM(model)
LoadPromise(model) == [model |-> model, state |-> "pending"]

\* a call of initialize(model): what it met, the promise it waits for, and, once
\* it is settled, what is loaded and what getCurrentModel() returns
InitializeCall(model, caller, met, promise, state, loaded, current) ==
    [model |-> model, caller |-> caller, met |-> met, promise |-> promise,
     state |-> state, loaded |-> loaded, current |-> current]

\* if (this.isInitialized && this.currentModel !== model) { ... }: the later
\* version forgets a model that is not the one asked for
forceReinitialization(w, model) ==
    IF w.version = "models" /\ w.isInitialized /\ w.currentModel # model
    THEN [w EXCEPT !.isInitialized = FALSE, !.initializationPromise = 0]
    ELSE w

\* initialize(model) after the forced re-initialization, up to its first await
initializeFrom(w, model, caller) ==
    IF w.isInitialized
    THEN [w EXCEPT !.calls = Append(@, InitializeCall(model, caller, "initialized", 0,
                                                     "resolved", w.window, w.currentModel))]
    ELSE IF w.initializationPromise # 0
         THEN [w EXCEPT !.calls = Append(@, InitializeCall(model, caller,
                                             w.promises[w.initializationPromise].state,
                                             w.initializationPromise,
                                             w.promises[w.initializationPromise].state,
                                             w.window, w.currentModel))]
         ELSE [w EXCEPT !.currentModel = model,
                        !.promises = Append(@, LoadPromise(model)),
                        !.initializationPromise = Len(w.promises) + 1,
                        !.calls = Append(@, InitializeCall(model, caller, "nothing",
                                                           Len(w.promises) + 1, "pending",
                                                           w.window, w.currentModel))]

initialize(w, model, caller) == initializeFrom(forceReinitialization(w, model), model, caller)

\* the calls that wait for promise p are settled with it
settle(w, p, state) ==
    [i \in 1..Len(w.calls) |->
        IF w.calls[i].promise = p /\ w.calls[i].state = "pending"
        THEN [w.calls[i] EXCEPT !.state = state, !.loaded = w.window, !.current = w.currentModel]
        ELSE w.calls[i]]

\* loadWASM runs to its end: go.run registers the functions of the model on
\* window, the promise resolves, and initialize goes on to isInitialized = true
loadWASMResolves(w, p) ==
    LET ran == [w EXCEPT !.window = w.promises[p].model,
                         !.promises[p].state = "resolved",
                         !.isInitialized = TRUE]
    IN [ran EXCEPT !.calls = settle(ran, p, "resolved")]

\* loadWASM throws: the later version's catch sets isInitialized = false and
\* initializationPromise = null and throws again, the earlier version's only
\* warns and throws again
loadWASMThrows(w, p) ==
    LET thrown == IF w.version = "models"
                  THEN [w EXCEPT !.promises[p].state = "rejected",
                                 !.isInitialized = FALSE, !.initializationPromise = 0]
                  ELSE [w EXCEPT !.promises[p].state = "rejected"]
    IN [thrown EXCEPT !.calls = settle(thrown, p, "rejected")]

FrontUnchanged ==
    /\ UNCHANGED <<registries, parser, fileContent, names, infos, extracted, registered, matched>>
    /\ UNCHANGED renderVars

\* wasmUtils.initialize(model), or wasmUtils.extractVariables of the earlier
\* version, which awaits initialize() first
Initialize(model, caller) ==
    /\ Len(wasm.calls) < MaxCalls
    /\ model \in ModelsOf(wasm.version)
    /\ caller = "extractVariables" => wasm.version = "main.wasm"
    /\ wasm' = initialize(wasm, model, caller)
    /\ FrontUnchanged

LoadSucceeds(p) ==
    /\ wasm.promises[p].state = "pending"
    /\ wasm' = loadWASMResolves(wasm, p)
    /\ FrontUnchanged

LoadFails(p) ==
    /\ wasm.promises[p].state = "pending"
    /\ wasm' = loadWASMThrows(wasm, p)
    /\ FrontUnchanged

WasmInit == Start /\ wasm \in {NewWASMUtils(version) : version \in Versions}

WasmNext ==
    \/ \E model \in WasmModels \cup {"main"}, caller \in Callers : Initialize(model, caller)
    \/ \E p \in 1..Len(wasm.promises) : LoadSucceeds(p)
    \/ \E p \in 1..Len(wasm.promises) : LoadFails(p)

WasmSpec == WasmInit /\ [][WasmNext]_vars

(***************************************************************************)
(* Properties.                                                             *)
(***************************************************************************)
Root == fileContent.root

Range(seq) == {seq[i] : i \in 1..Len(seq)}
Count(seq, x) == Cardinality({i \in 1..Len(seq) : seq[i] = x})
NamesOf(result) == [i \in 1..Len(result) |-> result[i].Name]

Succeeded(ret) == ret # NotCalled /\ ret.err = NoError
Recognized(funcName) == MatchCustomFunc(registries, parser.functionMatcher, funcName)

\* the template is a single action {{cmd}} after some text
SingleAction(cmd) == Root = ListNode(<<TextNode, ActionNode(PipeNode(<<cmd>>))>>)

\* C1: the names ExtractVariablesWithDefaults returns, ignoring the defaults, are
\* element by element and in the same order the names ExtractVariables returns
\* for the same template, whatever the registry and the matcher.
C1_SameNames ==
    (names # NotCalled /\ infos # NotCalled) =>
        /\ infos.err = names.err
        /\ NamesOf(infos.result) = names.result

\* both extractions ran on a template with several names, one of them with a default
C1_Witness ==
    /\ Succeeded(names) /\ Succeeded(infos)
    /\ Len(names.result) >= 3
    /\ \E i \in 1..Len(infos.result) : infos.result[i].DefaultValue # ""

\* the literal keys the strict accessor get is called with
StrictKeys == {c.args[2].Text : c \in {d \in Commands(Root, 1) :
                    /\ d.args[1].type = "Identifier" /\ d.args[1].Ident = "get"
                    /\ Len(d.args) > 1 /\ d.args[2].type = "String"}}

\* every node of the template is text or an action, so every call is executed
Unconditional == \A i \in 1..Len(Root.Nodes) : Root.Nodes[i].type \in {"Text", "Action"}

\* a value supplied for every reported name
ValuesFor(result) == [n \in Range(result) |-> "value"]

\* C2: when extraction succeeds, every key the strict accessor get looks up at
\* render time is among the reported names, so rendering with a value for every
\* reported name never fails with a key-not-found error.
C2_NoMissingKey ==
    (/\ Succeeded(names) /\ Recognized("get")
     /\ Unconditional /\ TreeIdents(Root) \subseteq CreateRenderFuncMap) =>
        \A key \in StrictKeys : getRenderHandler(ValuesFor(names.result), key).err = NoError

\* every child of a node, in document order
Children(node) ==
    CASE node.type = "Command" -> node.Args
      [] node.type = "Pipe" -> node.Cmds
      [] node.type = "List" -> node.Nodes
      [] node.type \in {"Action", "Template"} -> <<node.Pipe>>
      [] node.type = "Chain" -> <<node.Node>>
      [] node.type \in BlockKinds -> <<node.Pipe, node.List, node.ElseList>>
      [] OTHER -> <<>>

RECURSIVE concatAll(_, _)
concatAll(seqs, i) == IF i > Len(seqs) THEN <<>> ELSE seqs[i] \o concatAll(seqs, i + 1)
flatten[seqs \in Seq(Seq(STRING))] == concatAll(seqs, 1)

\* the dotted path of every field reference of a tree, in document order
RECURSIVE AllFields(_)
AllFields(node) ==
    IF node.type = "Field" THEN <<Join(node.Ident)>>
    ELSE flatten[[i \in 1..Len(Children(node)) |-> AllFields(Children(node)[i])]]

\* C3: every field reference anywhere in a parsed template (top level, inside a
\* block, at any argument position of any call) yields exactly one entry, named
\* by its dotted path and without a default.
C3_EveryFieldOnce ==
    Succeeded(infos) =>
        \A path \in Range(AllFields(Root)) :
            Count(infos.result, VariableInfo(path, "")) = Count(AllFields(Root), path)

\* a call getv "<key>" "<default>"
IsGetvWithDefault(args) ==
    /\ args[1].type = "Identifier" /\ args[1].Ident = "getv"
    /\ Len(args) > 2 /\ args[2].type = "String" /\ args[3].type = "String"

\* the argument lists of the commands reached through actions, pipelines and
\* the guard, body and else of blocks only: the commands that are not nested
\* in an argument of another command
RECURSIVE OuterCalls(_)
OuterCalls(node) ==
    CASE node.type = "List" -> UNION {OuterCalls(node.Nodes[i]) : i \in 1..Len(node.Nodes)}
      [] node.type = "Action" -> OuterCalls(node.Pipe)
      [] node.type = "Pipe" -> {node.Cmds[i].Args : i \in 1..Len(node.Cmds)}
      [] node.type \in BlockKinds ->
            UNION {OuterCalls(n) : n \in {node.Pipe, node.List, node.ElseList} \ {Nil}}
      [] OTHER -> {}

C5_NoDefault ==
    (Succeeded(infos) /\ "getv" \notin TreeIdents(Root)) =>
        \A i \in 1..Len(infos.result) : infos.result[i].DefaultValue = ""

\* the transform functions: their first argument is an expression, never a key
TransformFunctions == Range(ConfdFirstArgFunctions)

\* the call whose registered extractors ran last is a call of a transform function
TransformCall ==
    /\ extracted # NoCall
    /\ extracted.during = "none"
    /\ extracted.args[1].Ident \in TransformFunctions
    /\ GetFunction(registries[configuredRegistry(parser)], extracted.args[1].Ident).exists
    /\ GetFunction(registries[configuredRegistry(parser)], extracted.args[1].Ident).def.Extractor
            = "extractFirstArgVariable"
    /\ Len(extracted.args) > 1

Descents(node) ==
    CASE node.type = "Command" ->
            IF node.Args[1].type = "Identifier" /\ Recognized(node.Args[1].Ident)
            THEN IF Len(node.Args) > 1 /\ node.Args[2].type # "String"
                 THEN {node.Args[2]} ELSE {}
            ELSE Range(node.Args)
      [] node.type = "Action" -> {node.Pipe}
      [] node.type = "Pipe" -> Range(node.Cmds)
      [] node.type = "List" -> Range(node.Nodes)
      [] node.type \in BlockKinds -> {node.Pipe, node.List, node.ElseList} \ {Nil}
      [] OTHER -> {}

\* the levels of the nodes the walk enters, the root being level 1
RECURSIVE Levels(_, _)
Levels(node, level) ==
    {level} \cup UNION {Levels(n, level + 1) : n \in Descents(node)}

NestingOf(root) == CHOOSE level \in Levels(root, 1) : \A l \in Levels(root, 1) : l <= level

Parsed(ret) == ret # NotCalled /\ ret.err \notin {Errorf(ParseError), FuncsPanic}

\* C7: extraction of a template nested 41 or more levels deep fails with the
\* excessive-nesting error, and one nested exactly 40 levels deep succeeds, the
\* levels being the walk's recursive descents counted from the root.
C7_DepthCeiling ==
    /\ Parsed(names) => (names.err = Errorf(DepthError) <=> NestingOf(Root) > maxDepth)
    /\ Parsed(names) => (names.err = NoError <=> NestingOf(Root) <= maxDepth)
    /\ Parsed(infos) => (infos.err = Errorf(DepthError) <=> NestingOf(Root) > maxDepth)

\* a template nested exactly to the ceiling was extracted
C7_Witness == Succeeded(names) /\ NestingOf(Root) = maxDepth /\ names.result # <<>>

\* C8: a failed extraction (parse failure or depth ceiling) returns an error and
\* no result list: the names collected before the failing node are not returned,
\* neither by the walk nor by the extraction.
C8_NoPartialResult ==
    /\ (names # NotCalled /\ names.err # NoError) => names.result = <<>>
    /\ (infos # NotCalled /\ infos.err # NoError) => infos.result = <<>>
    /\ (names # NotCalled /\ names.err = Errorf(DepthError)) =>
            getFieldFromNode(registries, parser, Root, 0) = Ret(<<>>, DepthError)
    /\ (infos # NotCalled /\ infos.err = Errorf(DepthError)) =>
            getFieldFromNodeWithDefaults(registries, parser, Root, 0) = Ret(<<>>, DepthError)

\* the walk collected a name from the first action and failed in the second
C8_Witness ==
    /\ names # NotCalled /\ names.err = Errorf(DepthError) /\ names.result = <<>>
    /\ getFieldFromNode(registries, parser, Root.Nodes[1], 1) = Ret(<<"User.Name">>, NoError)

\* the recognized calls with a literal string as first argument
LiteralKeyCalls ==
    {c \in Commands(Root, 1) :
        /\ c.args[1].type = "Identifier" /\ Recognized(c.args[1].Ident)
        /\ Len(c.args) > 1 /\ c.args[2].type = "String"}

\* C9: a call of a recognized accessor with a literal string as first argument
\* contributes exactly one entry, named by the text of the literal, and nothing
\* else: the literal is not walked.
C9_LiteralKeyOnce ==
    /\ \A c \in LiteralKeyCalls :
            /\ parseCustomFunc(registries, parser, c.args, c.cycle)
                    = Ret(<<c.args[2].Text>>, NoError)
            /\ NamesOf(parseCustomFuncWithDefaults(registries, parser, c.args, c.cycle).result)
                    = <<c.args[2].Text>>
    /\ \A c \in LiteralKeyCalls :
            (SingleAction(CommandNode(c.args)) /\ Succeeded(names)) =>
                names.result = <<c.args[2].Text>>

\* {{getv "key" "fallback" .User.Name}} was extracted
C9_Witness ==
    /\ SingleAction(Call("getv", <<SKey, SFallback, FUserName>>))
    /\ Recognized("getv")
    /\ names = Ret(<<"key">>, NoError)

\* the template is some text and one if, range or with block
SingleBlock == Root.type = "List" /\ Len(Root.Nodes) = 2 /\ Root.Nodes[2].type \in BlockKinds

\* what the walk finds in a part of the block, entered from the block at level 2
PartNames(part) == IF part = Nil THEN <<>> ELSE getFieldFromNode(registries, parser, part, 2).result
PartInfos(part) ==
    IF part = Nil THEN <<>> ELSE getFieldFromNodeWithDefaults(registries, parser, part, 2).result

\* C10: an if, range or with block yields the entries of its guard, then those
\* of its body, then those of its else, the else only when there is one; the
\* three kinds of block are handled identically.
C10_GuardBodyElse ==
    SingleBlock =>
        /\ Succeeded(names) =>
                names.result = PartNames(Root.Nodes[2].Pipe) \o PartNames(Root.Nodes[2].List)
                                    \o PartNames(Root.Nodes[2].ElseList)
        /\ Succeeded(infos) =>
                infos.result = PartInfos(Root.Nodes[2].Pipe) \o PartInfos(Root.Nodes[2].List)
                                    \o PartInfos(Root.Nodes[2].ElseList)
        /\ \A kind \in BlockKinds :
                /\ getFieldFromNode(registries, parser, [Root.Nodes[2] EXCEPT !.type = kind], 1)
                        = getFieldFromNode(registries, parser, Root.Nodes[2], 1)
                /\ getFieldFromNodeWithDefaults(registries, parser,
                                                [Root.Nodes[2] EXCEPT !.type = kind], 1)
                        = getFieldFromNodeWithDefaults(registries, parser, Root.Nodes[2], 1)

\* {{range .Name}}{{.User.Name}}{{else}}{{.Default}}{{end}} was extracted
C10_Witness ==
    /\ SingleBlock /\ Root.Nodes[2].type = "Range" /\ Root.Nodes[2].ElseList # Nil
    /\ names = Ret(<<"Name", "User.Name", "Default">>, NoError)

\* the children the walk descends to from a node, in the order it takes them
WalkedChildren(node) ==
    CASE node.type = "Command" ->
            IF node.Args[1].type = "Identifier" /\ Recognized(node.Args[1].Ident)
            THEN IF Len(node.Args) > 1 THEN <<node.Args[2]>> ELSE <<>>
            ELSE node.Args
      [] node.type = "Action" -> <<node.Pipe>>
      [] node.type = "Pipe" -> node.Cmds
      [] node.type = "List" -> node.Nodes
      [] node.type \in BlockKinds ->
            IF node.ElseList # Nil THEN <<node.Pipe, node.List, node.ElseList>>
            ELSE <<node.Pipe, node.List>>
      [] OTHER -> <<>>

\* the references of the part of a template the walk enters, one per field
\* node and one per literal key, in the order of the template text
RECURSIVE References(_)
References(node) ==
    CASE node.type = "Field" -> <<Join(node.Ident)>>
      [] node.type = "String" -> <<node.Text>>
      [] node.type = "Command" /\ ~(node.Args[1].type = "Identifier"
                                      /\ Recognized(node.Args[1].Ident)) ->
            flatten[[i \in 1..Len(node.Args) |->
                        IF node.Args[i].type = "String" THEN <<>>
                        ELSE References(node.Args[i])]]
      [] OTHER ->
            flatten[[i \in 1..Len(WalkedChildren(node)) |-> References(WalkedChildren(node)[i])]]

RegisteredCalls(regs) ==
    {c \in Commands(Root, 1) :
        /\ c.args[1].type = "Identifier"
        /\ GetFunction(regs[configuredRegistry(parser)], c.args[1].Ident).exists}

\* C12: for a fixed template and a parser with a fixed registry and matcher
\* every extraction returns the same result: a step that leaves the template,
\* the parser and the registry the parser is configured with as they are,
\* whatever else it changes, changes the result of no extraction.
C12_FixedConfiguration ==
    [][(/\ fileContent # NoTemplate /\ fileContent' = fileContent /\ parser' = parser
        /\ registries'[configuredRegistry(parser)] = registries[configuredRegistry(parser)])
       => /\ ExtractVariables(registries', parser, fileContent)
                = ExtractVariables(registries, parser, fileContent)
          /\ ExtractVariablesWithDefaults(registries', parser, fileContent)
                = ExtractVariablesWithDefaults(registries, parser, fileContent)
          /\ \A c \in RegisteredCalls(registries) :
                extractCall(registries', parser, c, "none")
                    = extractCall(registries, parser, c, "none")]_vars

\* C13: an extraction on a parser with its own registry instance reads no other
\* instance, so a RegisterFunction made at the same time on another instance
\* neither races with it nor changes what it returns.
C13_NoForeignRace ==
    (extracted.during \notin {"none", configuredRegistry(parser)}) =>
        /\ extracted.names.err # RaceError
        /\ extracted = extractCall(registries, parser,
                                   [args |-> extracted.args, cycle |-> extracted.cycle],
                                   extracted.during)

\* a call made through the function map the build's CreateRenderFuncMap returned
Rendered(funcName) ==
    /\ rendered.func = funcName
    /\ rendered.builder = "CreateRenderFuncMap"
    /\ rendered.handler # "none"

\* C14: for every function name registered in the build's registry, each
\* function map built for rendering over the supplied values has an entry under
\* that name, and the entry is not the parse-time stub the name was registered
\* with: a call of exists through the map sees a supplied key.
C14_RenderEntries ==
    /\ \A builder \in RenderBuilders : \A name \in DOMAIN registries.global :
          LET funcMap == RenderFuncMap(builder, registries, build, supplied) IN
          /\ name \in DOMAIN funcMap
          /\ funcMap[name] # registries.global[name].Handler
    /\ (rendered.func = "exists" /\ rendered.func \in DOMAIN registries.global
        /\ rendered.key \in DOMAIN supplied) => rendered.ret.val = BoolValue(TRUE)

\* the supplied value of the looked-up key is a string holding JSON of the shape
IsJSONOf(shape) ==
    /\ rendered.key \in DOMAIN supplied
    /\ supplied[rendered.key].type = "string"
    /\ JSONKind(supplied[rendered.key].str) = shape

\* C15: json and jsonArray return without an error exactly when the key is
\* present, its value is a string and the string is valid JSON of the expected
\* shape (an object for json, an array for jsonArray); in every other case they
\* return an error.
C15_JsonErrors ==
    /\ Rendered("json") => (rendered.ret.err = NoError <=> IsJSONOf("object"))
    /\ Rendered("jsonArray") => (rendered.ret.err = NoError <=> IsJSONOf("array"))

\* C16: getv never fails; it returns the value of the key when that is a
\* non-empty string, otherwise the default when one was given, otherwise the
\* empty string.
C16_GetvNeverFails ==
    Rendered("getv") =>
        /\ rendered.ret.err = NoError
        /\ rendered.ret.val =
              IF /\ rendered.key \in DOMAIN supplied
                 /\ supplied[rendered.key].type = "string"
                 /\ supplied[rendered.key].str # <<>>
              THEN supplied[rendered.key]
              ELSE IF Len(rendered.v) > 0 THEN StringValue(rendered.v[1])
              ELSE StringValue(<<>>)

C16_Witness ==
    /\ Rendered("getv") /\ build = "confd"
    /\ rendered.key = "key" /\ supplied = [key |-> Nil]
    /\ rendered.v = <<(<<"fallback">>)>>
    /\ rendered.ret = [val |-> StringValue(<<"fallback">>), err |-> NoError]

\* C17: get returns the not-found error exactly when the key is absent; when
\* the key is present it returns the stored value as it is, empty or not and
\* of whatever type, without an error.
C17_StrictGet ==
    Rendered("get") =>
        /\ rendered.ret.err = NotFound(rendered.key) <=> rendered.key \notin DOMAIN supplied
        /\ rendered.key \in DOMAIN supplied =>
              rendered.ret = [val |-> supplied[rendered.key], err |-> NoError]

C17_Witness ==
    /\ Rendered("get") /\ build = "custom"
    /\ rendered.key = "key" /\ supplied = [key |-> StringValue(<<>>)]
    /\ rendered.ret = [val |-> StringValue(<<>>), err |-> NoError]

\* the names a caller may ask a registry for
AskedNames(rid) == (DOMAIN registries[rid]) \cup (DOMAIN registries'[rid]) \cup {"", "neverRegistered"}

\* the step is the call RegisterFunction(def) on the registry rid
IsRegisterFunction(rid, def) ==
    /\ registered' = registered + 1
    /\ registries' = [registries EXCEPT ![rid] = RegisterFunctionIn(registries[rid], def)]

\* C18: a RegisterFunction call makes GetFunction return its definition for its
\* name (found = true) and changes no other entry of its registry and no other
\* registry, so GetFunction returns the definition of the most recent call for
\* a name; a name no call has registered is not found.
C18_LastWriteWins ==
    /\ [](\A rid \in RegistryIds : ~GetFunction(registries[rid], "neverRegistered").exists)
    /\ [][\A rid \in RegistryIds, def \in LateDefinitions :
            IsRegisterFunction(rid, def) =>
               /\ GetFunction(registries'[rid], def.Name) = [def |-> def, exists |-> TRUE]
               /\ \A n \in AskedNames(rid) \ {def.Name} :
                     GetFunction(registries'[rid], n) = GetFunction(registries[rid], n)
               /\ \A other \in (DOMAIN registries) \ {rid} : registries'[other] = registries[other]]_vars

C18_Witness ==
    /\ registered = 3 /\ build = "custom"
    /\ GetFunction(registries.global, "getv").def = FunctionDefinition("getv", "extractNoVariables", "extractNoVariablesInfo")
    /\ GetFunction(registries.global, "base").exists
    /\ GetFunction(registries.global, "get").def = FunctionDefinition("get", "extractKeyArgVariable", "extractKeyArgVariableInfo")
    /\ registries.own = NewCustomFunctionsRegistry

\* C19: RegisterFunction stores every definition with a non-empty name and
\* rejects a definition with an empty name, leaving the registry unchanged.
C19_EmptyNameRejected ==
    [][\A rid \in RegistryIds, def \in LateDefinitions :
            IsRegisterFunction(rid, def) =>
               IF def.Name = "" THEN registries' = registries
               ELSE GetFunction(registries'[rid], def.Name) = [def |-> def, exists |-> TRUE]]_vars

\* C20: a matcher made over a registry matches a name exactly when the registry
\* holds the name at the time of the call, for the parser's matcher as for any
\* matcher made over one of the registries; the matcher is the same after a
\* registration as before.
C20_RegistryMatcher ==
    /\ \A rid \in RegistryIds : \A n \in (DOMAIN registries.global) \cup (DOMAIN registries.own) \cup {"", "base", "neverRegistered"} :
          MatchCustomFunc(registries, NewRegistryFunctionMatcher(rid), n) <=> n \in DOMAIN registries[rid]
    /\ parser.functionMatcher.kind = "registry" =>
          \A n \in TreeIdents(Root) :
             Recognized(n) <=> GetFunction(registries[parser.functionMatcher.registry], n).exists

\* base is registered after the custom build made its matcher, and a template
\* calling base is then extracted
C20_Witness ==
    /\ build = "custom" /\ registered = 1
    /\ parser = NewParserWithRegistry(NewRegistryFunctionMatcher("global"), "global")
    /\ "base" \in TreeIdents(Root)
    /\ Recognized("base")
    /\ Succeeded(names) /\ names.result # <<>>

\* the step is a MatchCustomFunc call of the parser's matcher
IsMatchCustomFunc == matched' # matched /\ matched'.funcName # "none"

\* the names a default or registry matcher holds in the current state
HeldBy(m) == IF m.kind = "default" THEN m.supportedFunctions ELSE DOMAIN registries[m.registry]

\* the sequence ms in the order f
Reordered(ms, f) == [i \in 1..Len(ms) |-> ms[f[i]]]

\* C21: a composite matcher matches a name exactly when one of its sub-matchers
\* holds the name; every reordering of the sub-matchers gives the same answer,
\* and a composite of no matchers matches nothing.
C21_CompositeAny ==
    [][(IsMatchCustomFunc /\ parser.functionMatcher.kind = "composite") =>
          LET ms == parser.functionMatcher.matchers
              n == matched'.funcName
          IN /\ matched'.ret <=> \E i \in 1..Len(ms) : n \in HeldBy(ms[i])
             /\ \A f \in Permutations(1..Len(ms)) :
                   MatchCustomFunc(registries, NewCompositeFunctionMatcher(Reordered(ms, f)), n) = matched'.ret
             /\ Len(ms) = 0 => ~matched'.ret]_vars

\* the official matcher first and the own registry second: json is matched by the second
C21_Witness ==
    /\ parser.functionMatcher = NewCompositeFunctionMatcher(<<NewOfficialFunctionMatcher, NewRegistryFunctionMatcher("own")>>)
    /\ matched = [funcName |-> "json", ret |-> TRUE]

\* the names the parser's matcher holds, through its sub-matchers when it is a composite
Known ==
    IF parser.functionMatcher.kind = "composite"
    THEN UNION {HeldBy(parser.functionMatcher.matchers[i]) : i \in 1..Len(parser.functionMatcher.matchers)}
    ELSE HeldBy(parser.functionMatcher)

\* C22: MatchCustomFunc returns a boolean for every name and changes nothing;
\* it returns false for the empty name and for every name the matcher does not
\* hold letter for letter, true for the names it holds.
C22_TotalAndExact ==
    [][IsMatchCustomFunc =>
          /\ matched'.ret \in BOOLEAN
          /\ UNCHANGED <<registries, parser, fileContent, names, infos, extracted, registered>>
          /\ matched'.funcName = "" => ~matched'.ret
          /\ matched'.ret <=> matched'.funcName \in Known]_vars

\* the recognized calls whose first argument is not a literal string
IndirectKeyCalls ==
    {c \in Commands(Root, 1) :
        /\ c.args[1].type = "Identifier" /\ Recognized(c.args[1].Ident)
        /\ Len(c.args) > 1 /\ c.args[2].type # "String"}

\* C23: for a recognized call whose key argument is not a literal string the
\* walk with defaults reports the names the plain walk finds in that argument,
\* each without a default, whatever stands in the default position; the
\* registered extractor of getv does the same with its own walk.
C23_IndirectKeyNoDefault ==
    /\ \A c \in IndirectKeyCalls :
          LET walked == getFieldFromNode(registries, parser, c.args[2], c.cycle) IN
          parseCustomFuncWithDefaults(registries, parser, c.args, c.cycle)
              = Ret(WrapNames(walked.result), walked.err)
    /\ \A c \in IndirectKeyCalls :
          (SingleAction(CommandNode(c.args)) /\ Succeeded(infos)) =>
             /\ NamesOf(infos.result) = getFieldFromNode(registries, parser, c.args[2], c.cycle).result
             /\ \A i \in 1..Len(infos.result) : infos.result[i].DefaultValue = ""
    /\ \A c \in IndirectKeyCalls :
          LET found == extractGetvVariablesWithDefaults(registries, c.args, c.cycle) IN
          \A i \in 1..Len(found.result) : found.result[i].DefaultValue = ""

\* {{getv .Name "fallback"}} was extracted with defaults
C23_Witness ==
    /\ SingleAction(Call("getv", <<FName, SFallback>>))
    /\ Recognized("getv")
    /\ infos = Ret(<<VariableInfo("Name", "")>>, NoError)

\* the calls whose head the matcher does not recognize
UnrecognizedCalls ==
    {c \in Commands(Root, 1) : c.args[1].type = "Identifier" /\ ~Recognized(c.args[1].Ident)}

TransformCalls ==
    {c \in Commands(Root, 1) :
        /\ c.args[1].type = "Identifier" /\ c.args[1].Ident \in TransformFunctions
        /\ Len(c.args) > 1}

\* C25: of a transform function only the first call argument is inspected:
\* its extractors return what they return for the call cut after its first
\* argument, which is nothing for a literal and the walk of the argument
\* otherwise, and a parser that recognizes the function reports for a template
\* of one such call the references of the first argument alone.
C25_FirstArgumentOnly ==
    /\ \A c \in TransformCalls :
          LET first == SubSeq(c.args, 1, 2)
              walked == IF c.args[2].type = "String" THEN Ret(<<>>, NoError)
                        ELSE getFieldFromNode(registries, globalParser, c.args[2], c.cycle)
          IN /\ extractFirstArgVariable(registries, c.args, c.cycle) = walked
             /\ extractFirstArgVariable(registries, c.args, c.cycle)
                   = extractFirstArgVariable(registries, first, c.cycle)
             /\ extractFirstArgVariableInfo(registries, c.args, c.cycle)
                   = Ret(WrapNames(walked.result), walked.err)
    /\ \A c \in TransformCalls :
          (SingleAction(CommandNode(c.args)) /\ Recognized(c.args[1].Ident) /\ Succeeded(names)) =>
             names.result = References(c.args[2])

\* {{base .User.Name .Name}} under a parser that recognizes base
C25_Witness ==
    /\ SingleAction(Call("base", <<FUserName, FName>>))
    /\ Recognized("base")
    /\ extractFirstArgVariable(registries, Call("base", <<FUserName, FName>>).Args, 1)
          = Ret(<<"User.Name">>, NoError)
    /\ names = Ret(<<"User.Name">>, NoError)

PureUtilityFunctions == {"seq", "join", "map", "datetime", "reverse", "atoi"}

\* the calls of a pure utility function the global registry holds
UtilityFunctionCalls ==
    {c \in Commands(Root, 1) :
        /\ c.args[1].type = "Identifier" /\ c.args[1].Ident \in PureUtilityFunctions
        /\ GetFunction(registries["global"], c.args[1].Ident).exists}

\* C26: a call of a registered pure utility function (seq, join, map, datetime,
\* reverse, atoi) contributes no dependency whatever its arguments are: the
\* extractors its definition carries return nothing for it.
C26_UtilityNoDependency ==
    \A c \in UtilityFunctionCalls :
        LET def == GetFunction(registries["global"], c.args[1].Ident).def IN
        /\ callExtractor(def.Extractor, registries, c.args, c.cycle) = Ret(<<>>, NoError)
        /\ callExtractorWithDefaults(def.ExtractorWithDefaults, registries, c.args, c.cycle)
              = Ret(<<>>, NoError)

\* the nodes the activation of the walk on a node calls the walk on, in the
\* order of the calls, the calls made through parseCustomFunc and
\* processIfAndWithAndRange included
Sons(regs, p, node) ==
    CASE node.type = "Command" ->
            IF node.Args[1].type = "Identifier"
               /\ MatchCustomFunc(regs, p.functionMatcher, node.Args[1].Ident)
            THEN IF Len(node.Args) > 1 /\ node.Args[2].type # "String"
                 THEN <<node.Args[2]>> ELSE <<>>
            ELSE node.Args
      [] node.type = "Action" -> <<node.Pipe>>
      [] node.type = "Pipe" -> node.Cmds
      [] node.type = "List" -> node.Nodes
      [] node.type \in BlockKinds ->
            IF node.ElseList # Nil THEN <<node.Pipe, node.List, node.ElseList>>
            ELSE <<node.Pipe, node.List>>
      [] OTHER -> <<>>

\* the number of nodes of a tree
RECURSIVE NodeCount(_)
RECURSIVE NodeCounts(_, _)
NodeCount(node) == IF node = Nil THEN 0 ELSE 1 + NodeCounts(Children(node), 1)
NodeCounts(nodes, i) ==
    IF i > Len(nodes) THEN 0 ELSE NodeCount(nodes[i]) + NodeCounts(nodes, i + 1)

\* an activation of getFieldFromNode: the size of its node, its depth counter
\* after the increment, and the same of the activation that called it
Activations == [size : Nat, depth : Nat, callerSize : Nat, callerDepth : Nat]
Walks == [frames : Seq(Activations), err : {NoError, DepthError}]

\* a loop over the sons: it returns at the first son that returns an error
RECURSIVE rangeSons(_, _, _)
rangeSons(sons, i, frames) ==
    IF i > Len(sons) THEN [frames |-> frames, err |-> NoError]
    ELSE IF sons[i].err # NoError THEN [frames |-> frames \o sons[i].frames, err |-> sons[i].err]
    ELSE rangeSons(sons, i + 1, frames \o sons[i].frames)

walkSons[sons \in Seq(Walks)] == rangeSons(sons, 2, sons[1].frames)

\* the activations of getFieldFromNode a walk makes, in the order of the calls,
\* and the error it returns: an activation over the ceiling calls nothing
RECURSIVE Frames(_, _, _, _, _)
Frames(regs, p, node, depth, callerSize) ==
    IF nodeCase(node, depth) = "depth > maxDepth"
    THEN [frames |-> <<[size |-> NodeCount(node), depth |-> depth + 1,
                        callerSize |-> callerSize, callerDepth |-> depth]>>,
          err |-> DepthError]
    ELSE walkSons[<<[frames |-> <<[size |-> NodeCount(node), depth |-> depth + 1,
                                   callerSize |-> callerSize, callerDepth |-> depth]>>,
                     err |-> NoError]>>
                  \o [i \in 1..Len(Sons(regs, p, node)) |->
                        Frames(regs, p, Sons(regs, p, node)[i], depth + 1, NodeCount(node))]]

Walk == Frames(registries, parser, Root, 0, NodeCount(Root) + 1)

\* C27: the walk of a template tree terminates: every activation is on a tree
\* strictly smaller than the tree of its caller (a son is a child node), with
\* the counter of its caller plus one, the first one with counter 1; no
\* activation has a counter over 41, one at 41 exists exactly when the walk
\* returns the nesting error, the walker returns the error of the logged walk,
\* and there are no more activations than the tree has nodes.
C27_WalkTerminates ==
    /\ Parsed(names) =>
          \A walk \in {Walk} :
             /\ walk.frames[1].depth = 1
             /\ \A i \in 1..Len(walk.frames) :
                   /\ walk.frames[i].size < walk.frames[i].callerSize
                   /\ walk.frames[i].depth = walk.frames[i].callerDepth + 1
                   /\ walk.frames[i].depth <= maxDepth + 1
             /\ \A i \in 2..Len(walk.frames) :
                   \E k \in 1..(i - 1) :
                      /\ walk.frames[k].depth = walk.frames[i].callerDepth
                      /\ walk.frames[k].size = walk.frames[i].callerSize
             /\ (\E i \in 1..Len(walk.frames) : walk.frames[i].depth = maxDepth + 1)
                   <=> walk.err = DepthError
             /\ getFieldFromNode(registries, parser, Root, 0).err = walk.err
             /\ names.err = (IF walk.err = NoError THEN NoError ELSE Errorf(DepthError))
             /\ Len(walk.frames) <= NodeCount(Root)
    /\ \A c \in Commands(Root, 1) :
          \A sons \in {Sons(registries, parser, CommandNode(c.args))} :
             \A k \in 1..Len(sons) : \E j \in 1..Len(c.args) : c.args[j] = sons[k]

\* a walk stopped by its 41st nested activation
C27_Witness ==
    /\ names # NotCalled /\ names.err = Errorf(DepthError)
    /\ \E walk \in {Walk} :
          /\ walk.frames[Len(walk.frames)].depth = maxDepth + 1
          /\ Len(walk.frames) < NodeCount(Root)

\* every if, range and with block of a template with the depth at which the
\* walker hands it to processIfAndWithAndRange
RECURSIVE BlocksOf(_, _)
BlocksOf(node, depth) ==
    CASE node.type \in BlockKinds ->
            {[node |-> node, cycle |-> depth]}
            \cup BlocksOf(node.List, depth + 1) \cup BlocksOf(node.ElseList, depth + 1)
      [] node.type = "List" -> UNION {BlocksOf(node.Nodes[i], depth + 1) : i \in 1..Len(node.Nodes)}
      [] OTHER -> {}

\* the parts of a block, each walked on its own from the depth of the block
PartsAlone(block) ==
    [i \in 1..Len(Sons(registries, parser, block.node)) |->
        getFieldFromNode(registries, parser, Sons(registries, parser, block.node)[i], block.cycle)]

\* the nodes of the root list, each walked on its own from the depth of the list
SiblingsAlone ==
    [i \in 1..Len(Root.Nodes) |-> getFieldFromNode(registries, parser, Root.Nodes[i], 1)]

\* C28: the ceiling looks at the length of the path from the root to a node,
\* not at the nodes walked before: a list is extracted exactly when each of its
\* nodes is when walked on its own at the depth of the list, the result being
\* theirs in order, the same holds of the guard, body and else part of a block,
\* and a template none of whose paths is longer than the ceiling is extracted
\* however many siblings it has.
C28_DepthIsPathLength ==
    /\ (Parsed(names) /\ Root.type = "List") =>
          \A alone \in {SiblingsAlone} :
             /\ names.err = NoError <=> \A i \in 1..Len(alone) : alone[i].err = NoError
             /\ names.err = NoError =>
                   names.result = flatten[[i \in 1..Len(alone) |-> alone[i].result]]
    /\ Parsed(names) =>
          \A b \in BlocksOf(Root, 1) :
             \A alone \in {PartsAlone(b)} :
                \A whole \in {processIfAndWithAndRange(registries, parser, b.node.Pipe,
                                                       b.node.List, b.node.ElseList, b.cycle)} :
                   /\ whole.err = NoError <=> \A i \in 1..Len(alone) : alone[i].err = NoError
                   /\ whole.err = NoError =>
                         whole.result = flatten[[i \in 1..Len(alone) |-> alone[i].result]]
    /\ (Parsed(names) /\ NestingOf(Root) <= maxDepth) => names.err = NoError

\* a list of more sibling actions and blocks than the ceiling was extracted
C28_Witness ==
    /\ Root \in SiblingRoots
    /\ Len(Root.Nodes) > maxDepth + 1
    /\ BlocksOf(Root, 1) # {}
    /\ Succeeded(names)
    /\ Len(names.result) > maxDepth + 1

\* C29: whenever initialize(m) resolves, the model that is loaded and the
\* model getCurrentModel() returns are both m, also when the call was made
\* while an initialize for another model was in flight.
C29_ResolvedWithModel ==
    wasm.version = "models" =>
        \A i \in 1..Len(wasm.calls) :
            wasm.calls[i].state = "resolved" =>
                /\ wasm.calls[i].loaded = wasm.calls[i].model
                /\ wasm.calls[i].current = wasm.calls[i].model

\* C30: a failed initialization does not poison later attempts: no call of
\* initialize, made directly or by extractVariables, is handed a promise that
\* is already rejected; a call made after a rejection waits for a load that
\* was started after it.
C30_NoCachedRejection ==
    \A i \in 1..Len(wasm.calls) : wasm.calls[i].met # "rejected"
====
